---- MODULE Spec2Model ----
(***************************************************************************)
(* Smart-Resource-Scheduler: the ProcessManager (process controller), the  *)
(* ModeManager, the Scheduler and the MemoryManager, with the host they    *)
(* act on (pids, signals, nice values, memory, the CPU governor file) and  *)
(* the SystemMonitor snapshot they read.                                   *)
(***************************************************************************)
EXTENDS Integers, Sequences, FiniteSets, TLC

(***************************************************************************)
(* Bounds of the model.                                                    *)
(***************************************************************************)
\* pids 1..NumPids exist on the host
NumPids == 3
\* threads that may call ModeManager::switchToMode at the same time
NumCallers == 2
\* calls of switchToMode in one run
MaxSwitches == 2

Pids == 1..NumPids
Callers == 1..NumCallers

(***************************************************************************)
(* The host's processes.  A pid keeps its name for the whole run.          *)
(***************************************************************************)
ProcName(p) ==
    CASE p = 1 -> "systemd"
      [] p = 2 -> "steam"
      [] p = 3 -> "snapd"
      [] p = 4 -> "cupsd"
      [] OTHER -> "bash"

\* kill(pid, sig) by this user is refused (EPERM) for another user's process
Permitted(p) == ProcName(p) # "cupsd"

\* the tokens of the mode configurations that occur in a name as a substring
\* (std::string::find(token) != npos)
TokensIn(name) ==
    CASE name = "steam" -> {"steam"}
      [] name = "snapd" -> {"snapd"}
      [] OTHER -> {}

critical_process_names_ ==
    {"init", "kernel", "kthreadd", "systemd", "dbus", "networkd",
     "X", "Xorg", "gdm", "lightdm", "pulseaudio", "NetworkManager"}

\* ProcessPriority enumerators, used directly as nice values
PriorityHIGH == -10
PriorityLOW == 19

NiceMin == -20
NiceMax == 19

\* nice values callers pass to setProcessPriority (one of them out of range)
NiceInputs == {PriorityLOW, 25}

BoolStr(b) == IF b THEN "true" ELSE "false"

(***************************************************************************)
(* State.                                                                   *)
(***************************************************************************)
VARIABLES
    \* host
    alive,                  \* live pids
    hostNice,               \* pid -> nice value
    hostStopped,            \* pids stopped by SIGSTOP
    governor,               \* contents of cpu0/cpufreq/scaling_governor
    \* SystemMonitor
    snapshot,               \* pids of processes_ (the last completed poll)
    \* ProcessManager
    managed_processes_,     \* pid -> ManagedProcess
    pmStuck,                \* a thread hangs for ever holding processes_mutex_
    resume_callee,          \* what the call resumeProcess(pid) inside ProcessManager runs
    last,                   \* the last ProcessManager call and what it did
    \* Scheduler, MemoryManager
    current_algorithm_,
    optimization_strategy_,
    \* Scheduler
    scheduled_processes_,   \* the pids that are keys of the scheduled table
    heap,                   \* pid -> the ScheduledProcess object shared_ptrs point to
    round_robin_queue_,     \* sequence of pids
    multilevel_queues_,     \* level -> sequence of pids
    current_running_process_, \* a pid, or NoPid
    realtime_processes_,    \* registered real-time pids, best priority first
    picked,                 \* what the last selectNextProcess returned
    ticks,                  \* iterations of schedulingLoop so far
    \* MemoryManager
    process_memory_info_,   \* pid -> resident_memory_kb
    auto_optimization_enabled_,
    low_memory_threshold_,
    critical_memory_threshold_,
    system_memory_info_,    \* the last gathered totals
    memLast,                \* what the last monitoring cycle did
    \* ModeManager
    current_mode_,
    previous_mode_,
    mode_switching_active_,
    mode_mutex_,            \* 0, or the caller holding it
    state_backup_,
    pc,                     \* caller -> its place in switchToMode
    target,                 \* caller -> the mode it asked for
    pre,                    \* caller -> what it saw when it called
    ret,                    \* caller -> the result of its last call
    govFailed,              \* caller -> the governor write of its call was refused
    prevCall,               \* caller -> its previous call (target, result)
    switches,               \* calls of switchToMode so far
    \* host, CPU accounting
    hostCpu,                \* pid -> utime + stime of /proc/[pid]/stat, in clock ticks
    hostTotal,              \* the sum of the fields of the cpu line of /proc/stat
    \* SystemMonitor
    processes_,             \* pid -> ProcessInfo of the last completed poll
    system_stats_,          \* SystemStats of the last completed poll
    monitoring_active_,
    monPc,                  \* the place of the monitor thread in monitorLoop, or "none"
    new_processes,          \* getProcessList() of the poll in flight
    new_stats,              \* getSystemStats() of the poll in flight
    polls,                  \* polls started so far
    delivered,              \* the callbacks invoked so far, in order
    data_mutex_,            \* "free", or the thread that holds it
    got,                    \* what the last getter returned
    \* host, power and temperature, and the ModeManager's detection
    reading,                \* battery status and capacity, thermal zone, processes
    detected,               \* what the last detectOptimalMode returned
    \* ModeManager, quick actions
    boost,                  \* the place of quickBoostPerformance and its original_mode
    destroyed,              \* ~ModeManager has run
    \* Scheduler, its thread
    scheduler_active_,
    scheduler_thread_,      \* the place of the thread in schedulingLoop, or "none"
    stopPc,                 \* the place of the controlling thread in stopScheduler
    threads,                \* threads running schedulingLoop that were not joined
    scheduler_mutex_,       \* "free", or the thread that holds it
    callerPc,               \* the place of a user's thread in setSchedulingAlgorithm
    started,                \* what the last startScheduler returned
    \* callbacks
    invoking,               \* the callback being invoked and the mutexes its caller holds
    \* Scheduler, time slices
    time_slice,             \* pid -> ScheduledProcess::time_slice, in ms
    \* the Scheduler of Scheduler.cpp and its ThreadPool
    poolSched               \* running, the worker thread, the pool's queue and workers

hostVars == <<alive, hostNice, hostStopped, governor>>
pmVars == <<managed_processes_, pmStuck, resume_callee, last>>
schedState == <<scheduled_processes_, heap, round_robin_queue_, multilevel_queues_,
                current_running_process_>>
schedAux == <<realtime_processes_, picked, ticks>>
memVars == <<process_memory_info_, auto_optimization_enabled_, low_memory_threshold_,
             critical_memory_threshold_, system_memory_info_, memLast>>
peerVars == <<current_algorithm_, optimization_strategy_, schedState, schedAux, memVars>>
modeVars == <<current_mode_, previous_mode_, mode_switching_active_, mode_mutex_,
              state_backup_, pc, target, pre, ret, govFailed, prevCall, switches>>
cpuVars == <<hostCpu, hostTotal>>
monVars == <<system_stats_, monitoring_active_, monPc, new_processes, new_stats, polls,
             delivered, data_mutex_, got>>
detectVars == <<reading, detected>>
thrVars == <<scheduler_active_, scheduler_thread_, stopPc, threads, scheduler_mutex_,
            callerPc, started>>
lateVars == <<time_slice, poolSched>>
auxVars == <<destroyed, thrVars, invoking, lateVars>>
obsVars == <<cpuVars, processes_, monVars, detectVars, boost, auxVars>>
vars == <<hostVars, snapshot, pmVars, peerVars, modeVars, obsVars>>

(***************************************************************************)
(* The world a ProcessManager call reads and writes, as one record, so     *)
(* that a call is a function from worlds to worlds.                        *)
(***************************************************************************)
World ==
    [alive |-> alive, nice |-> hostNice, stopped |-> hostStopped,
     snapshot |-> snapshot, managed |-> managed_processes_, stuck |-> pmStuck]

SetWorld(w) ==
    /\ alive' = w.alive
    /\ hostNice' = w.nice
    /\ hostStopped' = w.stopped
    /\ snapshot' = w.snapshot
    /\ managed_processes_' = w.managed
    /\ pmStuck' = w.stuck

\* the result of a call: the world after it, what it returned ("true", "false",
\* "raised": an exception left it, "blocked": it never returns), and the host
\* calls it made, in order
Res(w, r, calls) == [w |-> w, ret |-> r, calls |-> calls]

\* results of a call that did not run to its end: it hangs, a callback threw,
\* or locking the mutex threw
Abandoned == {"blocked", "raised", "lock_error"}

(***************************************************************************)
(* Host primitives.                                                        *)
(***************************************************************************)
\* kill(pid, 0) == 0
hasPermission(w, p) == p \in w.alive /\ Permitted(p)

\* kill(pid, sig): the world after it; dies says whether a process that gets
\* SIGTERM exits (it may handle or ignore the signal)
sendSignal(w, p, sig, dies) ==
    IF ~hasPermission(w, p) THEN [w |-> w, ok |-> FALSE]
    ELSE [ok |-> TRUE,
          w |-> CASE sig = "SIGSTOP" -> [w EXCEPT !.stopped = @ \cup {p}]
                  [] sig = "SIGCONT" -> [w EXCEPT !.stopped = @ \ {p}]
                  [] sig \in {"SIGTERM", "SIGKILL"} /\ dies ->
                        [w EXCEPT !.alive = @ \ {p}, !.stopped = @ \ {p}, !.nice[p] = 0]
                  [] OTHER -> w]

Clamp(n) == IF n < NiceMin THEN NiceMin ELSE IF n > NiceMax THEN NiceMax ELSE n

\* setpriority(PRIO_PROCESS, pid, clamp(nice_value))
setProcessNiceValue(w, p, n) ==
    IF ~hasPermission(w, p) THEN [w |-> w, ok |-> FALSE]
    ELSE [w |-> [w EXCEPT !.nice[p] = Clamp(n)], ok |-> TRUE]

\* getpriority; 0 when the pid is gone
getProcessNiceValue(w, p) == IF p \in w.alive THEN w.nice[p] ELSE 0

(***************************************************************************)
(* ProcessManager helpers.                                                 *)
(***************************************************************************)
isProcessCritical(name) == name \in critical_process_names_

\* no name of the model contains a token of system_process_names_ or of the
\* productivity patterns
categorizeProcess(name) ==
    IF isProcessCritical(name) THEN "critical"
    ELSE IF name = "steam" THEN "gaming"
    ELSE "user"

canModifyProcess(w, p) ==
    /\ p \in w.snapshot
    /\ ~isProcessCritical(ProcName(p))
    /\ hasPermission(w, p)

IsManaged(w, p) == p \in DOMAIN w.managed

\* the managed table with field f of p's entry set to v, when p has an entry
Mark(w, p, f, v) ==
    IF IsManaged(w, p)
    THEN [w EXCEPT !.managed = [w.managed EXCEPT ![p] = [@ EXCEPT ![f] = v]]]
    ELSE w

\* a call made to the host: kill(pid, sig) or setpriority(pid, nice)
HostCall(kind, p, arg) ==
    IF kind = "kill" THEN [kind |-> "kill", pid |-> p, sig |-> arg, nice |-> 0]
    ELSE [kind |-> kind, pid |-> p, sig |-> "", nice |-> arg]

(***************************************************************************)
(* What the environment decides during one ProcessManager call:            *)
(*   dies  the process exits on SIGTERM (it may also handle or ignore it)  *)
(*   gone  the process exits between the guard and the host call           *)
(*   cb    a registered ProcessActionCallback throws                       *)
(*   rl    what locking processes_mutex_ again on the thread that holds it *)
(*         does (undefined for std::mutex): the thread blocks for ever, or *)
(*         the lock throws std::system_error                               *)
(***************************************************************************)
Envs == [dies : BOOLEAN, gone : BOOLEAN, cb : BOOLEAN, rl : {"block", "throw"}]

\* the environment in which nothing unusual happens
Calm == [dies |-> TRUE, gone |-> FALSE, cb |-> FALSE, rl |-> "block"]

\* the choices that matter to terminate, to pause and set_nice, to resume, and
\* to the operations that call others with the mutex held
TermEnvs == {e \in Envs : e.rl = "block" /\ (e.gone => e.dies)}
CallEnvs == {e \in Envs : e.rl = "block" /\ e.dies}
ResumeEnvs == {e \in Envs : e.dies}
LockedEnvs == {e \in Envs : e.dies /\ ~e.gone /\ ~e.cb}

Exit(w, p) == [w EXCEPT !.alive = @ \ {p}, !.stopped = @ \ {p}, !.nice[p] = 0]

Gone(w, p, e) == IF e.gone /\ p \in w.alive THEN Exit(w, p) ELSE w

Relock(w, e, calls) ==
    IF e.rl = "block" THEN Res([w EXCEPT !.stuck = TRUE], "blocked", calls)
    ELSE Res(w, "lock_error", calls)

killProcess(w, p, e) == sendSignal(w, p, "SIGTERM", e.dies)

suspendProcess(w, p) == sendSignal(w, p, "SIGSTOP", FALSE)

\* the host action of ProcessManager.cpp:194
resumeProcessInternal(w, p) == sendSignal(w, p, "SIGCONT", FALSE)

setPriority(w, p, priority) == setProcessNiceValue(w, p, priority)

(***************************************************************************)
(* ProcessManager's public operations.                                     *)
(***************************************************************************)
terminateProcess(w, p, e) ==
    IF ~canModifyProcess(w, p) THEN Res(w, "false", <<>>)
    ELSE IF w.stuck THEN Res(w, "blocked", <<>>)
    ELSE LET w1 == Mark(w, p, "current_state", "TERMINATED")
             k == killProcess(Gone(w1, p, e), p, e)
         IN  Res(k.w, IF e.cb THEN "raised" ELSE BoolStr(k.ok),
                 <<HostCall("kill", p, "SIGTERM")>>)

pauseProcess(w, p, e) ==
    IF ~canModifyProcess(w, p) THEN Res(w, "false", <<>>)
    ELSE IF w.stuck THEN Res(w, "blocked", <<>>)
    ELSE LET w1 == Mark(w, p, "current_state", "SUSPENDED")
             k == suspendProcess(Gone(w1, p, e), p)
         IN  Res(k.w, IF e.cb THEN "raised" ELSE BoolStr(k.ok),
                 <<HostCall("kill", p, "SIGSTOP")>>)

\* the call resumeProcess(pid) made inside a member function that holds
\* processes_mutex_.  ProcessManager.cpp defines bool resumeProcess(int) twice
\* (lines 92 and 194): the call runs the public method, which locks the mutex
\* again, or the host action
CallResume(w, p, callee, e) ==
    IF callee = "public" THEN Relock(w, e, <<>>)
    ELSE LET k == resumeProcessInternal(Gone(w, p, e), p)
         IN  Res(k.w, BoolStr(k.ok), <<HostCall("kill", p, "SIGCONT")>>)

resumeProcess(w, p, callee, e) ==
    IF w.stuck THEN Res(w, "blocked", <<>>)
    ELSE LET w1 == IF IsManaged(w, p) /\ w.managed[p].current_state = "SUSPENDED"
                   THEN Mark(w, p, "current_state", "RUNNING") ELSE w
             r == CallResume(w1, p, callee, e)
         IN  IF r.ret \in {"true", "false"} /\ e.cb THEN Res(r.w, "raised", r.calls) ELSE r

setProcessPriority(w, p, priority, e) ==
    IF ~canModifyProcess(w, p) THEN Res(w, "false", <<>>)
    ELSE IF w.stuck THEN Res(w, "blocked", <<>>)
    ELSE LET w1 == Mark(w, p, "current_priority", priority)
             k == setPriority(Gone(w1, p, e), p, priority)
         IN  Res(k.w, IF e.cb THEN "raised" ELSE BoolStr(k.ok),
                 <<HostCall("setpriority", p, Clamp(priority))>>)

\* SmartScheduler::ProcessManager::terminateProcess: SIGTERM, 100 ms, then
\* SIGKILL when the pid still exists; isValidProcess takes EPERM for "exists"
isValidProcess(w, p) == p > 0 /\ p \in w.alive

\* the names its constructor inserts into critical_process_names_
SmartCriticalNames == {"systemd", "kthreadd", "init", "kernel", "NetworkManager", "dbus"}

SmartTerminate(w, p, e) ==
    IF ~isValidProcess(w, p) THEN Res(w, "false", <<>>)
    ELSE IF p \in w.snapshot /\ ProcName(p) \in SmartCriticalNames
    THEN Res(w, "false", <<>>)
    ELSE LET t == sendSignal(w, p, "SIGTERM", e.dies)
         IN  IF ~t.ok THEN Res(w, "false", <<HostCall("kill", p, "SIGTERM")>>)
             ELSE IF isValidProcess(t.w, p)
             THEN LET k == sendSignal(t.w, p, "SIGKILL", TRUE)
                  IN  Res(k.w, BoolStr(k.ok), <<HostCall("kill", p, "SIGTERM"),
                                                HostCall("kill", p, "SIGKILL")>>)
             ELSE Res(t.w, "true", <<HostCall("kill", p, "SIGTERM")>>)

addToManaged(w, p, is_critical) ==
    IF p \notin w.snapshot THEN Res(w, "returned", <<>>)
    ELSE IF w.stuck THEN Res(w, "blocked", <<>>)
    ELSE LET m == [current_state |-> "RUNNING",
                   original_state |-> "RUNNING",
                   original_priority |-> getProcessNiceValue(w, p),
                   current_priority |-> getProcessNiceValue(w, p),
                   is_critical |-> is_critical \/ isProcessCritical(ProcName(p)),
                   category |-> categorizeProcess(ProcName(p))]
         IN  Res([w EXCEPT !.managed =
                     [q \in DOMAIN w.managed \cup {p} |->
                         IF q = p THEN m ELSE w.managed[q]]],
                 "returned", <<>>)

Erase(w, S) == [w EXCEPT !.managed = [q \in DOMAIN w.managed \ S |-> w.managed[q]]]

removeFromManaged(w, p, callee, e) ==
    IF w.stuck THEN Res(w, "blocked", <<>>)
    ELSE IF ~IsManaged(w, p) THEN Res(w, "returned", <<>>)
    ELSE LET m == w.managed[p]
             k == IF m.current_priority # m.original_priority
                  THEN Res(setPriority(w, p, m.original_priority).w, "true",
                           <<HostCall("setpriority", p, Clamp(m.original_priority))>>)
                  ELSE Res(w, "true", <<>>)
             r == IF m.current_state = "SUSPENDED"
                  THEN CallResume(k.w, p, callee, e)
                  ELSE Res(k.w, "true", <<>>)
         IN  IF r.ret \in Abandoned THEN Res(r.w, r.ret, k.calls \o r.calls)
             ELSE Res(Erase(r.w, {p}), "returned", k.calls \o r.calls)

updateManagedProcessInfo(w) ==
    IF w.stuck THEN Res(w, "blocked", <<>>)
    ELSE Res(Erase(w, DOMAIN w.managed \ w.snapshot), "returned", <<>>)

RECURSIVE SortedSeq(_)
SortedSeq(S) ==
    IF S = {} THEN <<>>
    ELSE LET m == CHOOSE x \in S : \A y \in S : x <= y
         IN  <<m>> \o SortedSeq(S \ {m})

\* one entry of restoreAllProcesses' loop, on the result so far
RestoreEntry(r, p, callee, e) ==
    IF r.ret \in Abandoned THEN r
    ELSE LET m == r.w.managed[p]
             a == IF m.current_state = "SUSPENDED"
                  THEN CallResume(r.w, p, callee, [e EXCEPT !.gone = FALSE])
                  ELSE Res(r.w, "true", <<>>)
         IN  IF a.ret \in Abandoned THEN Res(a.w, a.ret, r.calls \o a.calls)
             ELSE IF m.current_priority # m.original_priority
             THEN Res(setPriority(a.w, p, m.original_priority).w, "returned",
                      r.calls \o a.calls \o
                      <<HostCall("setpriority", p, Clamp(m.original_priority))>>)
             ELSE Res(a.w, "returned", r.calls \o a.calls)

RECURSIVE RestoreLoop(_, _, _, _)
RestoreLoop(r, order, callee, e) ==
    IF order = <<>> THEN r
    ELSE RestoreLoop(RestoreEntry(r, Head(order), callee, e), Tail(order), callee, e)

\* order: the order in which the unordered_map is walked
restoreAllProcesses(w, order, callee, e) ==
    IF w.stuck THEN Res(w, "blocked", <<>>)
    ELSE RestoreLoop(Res(w, "returned", <<>>), order, callee, e)

\* pauseProcessesByCategory holds processes_mutex_ and calls the public
\* pauseProcess, which returns false at its guard or locks the mutex again
pauseProcessesByCategory(w, category, e) ==
    IF w.stuck THEN Res(w, "blocked", <<>>)
    ELSE LET match == {p \in DOMAIN w.managed :
                          w.managed[p].category = category /\ ~w.managed[p].is_critical}
         IN  IF \E p \in match : canModifyProcess(w, p) THEN Relock(w, e, <<>>)
             ELSE Res(w, BoolStr(match = {}), <<>>)

\* one entry of resumeProcessesByCategory's loop
ResumeEntry(r, p, callee, e) ==
    IF r.ret \in Abandoned THEN r
    ELSE LET a == CallResume(r.w, p, callee, [e EXCEPT !.gone = FALSE])
         IN  Res(a.w,
                 IF a.ret \in Abandoned THEN a.ret
                 ELSE IF a.ret = "false" THEN "false" ELSE r.ret,
                 r.calls \o a.calls)

RECURSIVE ResumeLoop(_, _, _, _)
ResumeLoop(r, order, callee, e) ==
    IF order = <<>> THEN r
    ELSE ResumeLoop(ResumeEntry(r, Head(order), callee, e), Tail(order), callee, e)

resumeProcessesByCategory(w, category, callee, e) ==
    IF w.stuck THEN Res(w, "blocked", <<>>)
    ELSE LET match == {p \in DOMAIN w.managed :
                          /\ w.managed[p].category = category
                          /\ w.managed[p].current_state = "SUSPENDED"}
         IN  ResumeLoop(Res(w, "true", <<>>), SortedSeq(match), callee, e)

(***************************************************************************)
(* Modes and their configurations (ModeManager::create*ModeConfig).        *)
(***************************************************************************)
Modes == {"GAMING", "PRODUCTIVITY", "POWER_SAVING", "BALANCED"}

NoBackup ==
    [is_valid |-> FALSE, scheduler_algorithm |-> "PRIORITY_BASED", cpu_governor |-> "",
     process_priorities |-> <<>>, suspended_processes |-> {}]

NoCall == [target |-> "NONE", ret |-> "none"]

NoPre ==
    [mode |-> "NONE", previous |-> "NONE", algorithm |-> "NONE", strategy |-> "NONE",
     managed |-> <<>>, nice |-> <<>>, running |-> {}]

ModeConfig(m) ==
    CASE m = "GAMING" ->
           [scheduling_algorithm |-> "PRIORITY_BASED", memory_strategy |-> "CONSERVATIVE",
            cpu_governor |-> "performance",
            high_priority_processes |-> <<"steam", "game", "wine", "proton", "dota", "csgo",
                                          "unity", "unreal", "godot", "minecraft">>,
            low_priority_processes |-> <<"update", "backup", "indexer", "tracker">>,
            suspended_processes |-> <<"update-notifier", "packagekit", "snapd">>]
      [] m = "PRODUCTIVITY" ->
           [scheduling_algorithm |-> "COMPLETELY_FAIR", memory_strategy |-> "BALANCED",
            cpu_governor |-> "ondemand",
            high_priority_processes |-> <<"chrome", "firefox", "code", "vscode", "sublime",
                                          "intellij", "eclipse", "libreoffice", "gimp",
                                          "blender">>,
            low_priority_processes |-> <<>>,
            suspended_processes |-> <<>>]
      [] m = "POWER_SAVING" ->
           [scheduling_algorithm |-> "ROUND_ROBIN", memory_strategy |-> "AGGRESSIVE",
            cpu_governor |-> "powersave",
            high_priority_processes |-> <<>>,
            low_priority_processes |-> <<"chrome", "firefox", "update", "indexer">>,
            suspended_processes |-> <<"update-notifier", "packagekit", "snapd",
                                      "tracker-miner">>]
      [] OTHER ->
           [scheduling_algorithm |-> "PRIORITY_BASED", memory_strategy |-> "BALANCED",
            cpu_governor |-> "ondemand",
            high_priority_processes |-> <<>>,
            low_priority_processes |-> <<>>,
            suspended_processes |-> <<>>]

\* SystemMonitor::getProcessesByName: the polled processes whose name contains
\* the token
getProcessesByName(snap, token) == {p \in snap : token \in TokensIn(ProcName(p))}

\* SystemMonitor::isProcessRunning: the pid is in the last poll
isProcessRunning(snap, p) == p \in snap

\* a call the ModeManager makes on the ProcessManager
PMCall(op, p, priority) == [op |-> op, pid |-> p, priority |-> priority]

RECURSIVE CallsOn(_, _, _)
CallsOn(pids, op, priority) ==
    IF pids = <<>> THEN <<>>
    ELSE <<PMCall(op, Head(pids), priority)>> \o CallsOn(Tail(pids), op, priority)

RECURSIVE CallsFor(_, _, _, _)
CallsFor(tokens, snap, op, priority) ==
    IF tokens = <<>> THEN <<>>
    ELSE CallsOn(SortedSeq(getProcessesByName(snap, Head(tokens))), op, priority)
            \o CallsFor(Tail(tokens), snap, op, priority)

\* the calls of configureProcessPriorities, in order
PriorityCalls(config, snap) ==
    CallsFor(config.high_priority_processes, snap, "set", PriorityHIGH)
       \o CallsFor(config.low_priority_processes, snap, "set", PriorityLOW)
       \o CallsFor(config.suspended_processes, snap, "pause", 0)

\* the ProcessManager calls of restoreSystemState, in order
RECURSIVE RestorePriorityCalls(_, _, _)
RestorePriorityCalls(pids, backup, snap) ==
    IF pids = <<>> THEN <<>>
    ELSE (IF isProcessRunning(snap, Head(pids))
          THEN <<PMCall("set", Head(pids), backup.process_priorities[Head(pids)])>>
          ELSE <<>>) \o RestorePriorityCalls(Tail(pids), backup, snap)

RestoreCalls(backup, snap) ==
    RestorePriorityCalls(SortedSeq(DOMAIN backup.process_priorities), backup, snap)
       \o CallsOn(SortedSeq({p \in backup.suspended_processes : isProcessRunning(snap, p)}),
                  "resume", 0)

\* one ProcessManager call; throws says that a subscriber's callback throws
OneCall(w, c, throws, callee, rl) ==
    LET e == [dies |-> TRUE, gone |-> FALSE, cb |-> throws, rl |-> rl]
    IN  CASE c.op = "set" -> setProcessPriority(w, c.pid, c.priority, e)
          [] c.op = "pause" -> pauseProcess(w, c.pid, e)
          [] OTHER -> resumeProcess(w, c.pid, callee, e)

\* the calls in order, until one is abandoned; the callback of call number k
\* throws (k = 0: none does)
RECURSIVE RunCalls(_, _, _, _, _, _)
RunCalls(w, calls, i, k, callee, rl) ==
    IF i > Len(calls) THEN Res(w, "ok", <<>>)
    ELSE LET r == OneCall(w, calls[i], i = k, callee, rl)
         IN  IF r.ret \in Abandoned THEN r
             ELSE RunCalls(r.w, calls, i + 1, k, callee, rl)

\* ModeManager::backupCurrentState; process_priorities and
\* suspended_processes are only ever added to
backupCurrentState(backup, w, algorithm, gov) ==
    [is_valid |-> TRUE,
     scheduler_algorithm |-> algorithm,
     cpu_governor |-> gov,
     process_priorities |->
        [p \in DOMAIN backup.process_priorities \cup DOMAIN w.managed |->
            IF p \in DOMAIN w.managed THEN w.managed[p].current_priority
            ELSE backup.process_priorities[p]],
     suspended_processes |->
        backup.suspended_processes
           \cup {p \in DOMAIN w.managed : w.managed[p].current_state = "SUSPENDED"}]

\* a switchToMode that lacks the test of the requested mode
AlreadyInMode_Never(mode, current) == FALSE

\* switchToMode's test mode == current_mode_
AlreadyInMode(mode, current) == mode = current

(***************************************************************************)
(* The Scheduler: its tables and the functions schedulingLoop calls.       *)
(***************************************************************************)
\* Scheduler's constructor
max_queue_levels_ == 5

Levels == 0..(max_queue_levels_ - 1)

\* a null shared_ptr<ScheduledProcess>
NoPid == 0

\* iterations of schedulingLoop (one every 50 ms) that fit into
\* starvation_threshold_
StarvationTicks == 2

\* waits are followed up to this many iterations
WaitCap == 2 * StarvationTicks + 3

\* iterations of schedulingLoop in one run
MaxTicks == 4

\* registered real-time processes
MaxRealtime == 2

Algorithms == {"PRIORITY_BASED", "ROUND_ROBIN", "MULTILEVEL_FEEDBACK", "COMPLETELY_FAIR"}

Range(q) == {q[i] : i \in DOMAIN q}

Min2(a, b) == IF a < b THEN a ELSE b

\* the order in which a loop over scheduled_processes_ meets its keys
IterationOrder(S) == SortedSeq(S)

\* ProcessInfo::cpu_usage, as getProcessInfo fills it
cpu_usage(p) == 0

\* ProcessInfo::priority: field 18 of /proc/pid/stat, which for a process of
\* nice value n holds 20 + n
StatPriority(n) == 20 + n

\* the Scheduler's tables as one record
Sched ==
    [table |-> scheduled_processes_, heap |-> heap, rr |-> round_robin_queue_,
     mlq |-> multilevel_queues_, cur |-> current_running_process_]

\* the pids some shared_ptr of the Scheduler points to
Referenced(s) ==
    s.table \cup Range(s.rr) \cup UNION {Range(s.mlq[l]) : l \in Levels}
            \cup ({s.cur} \ {NoPid})

\* an object is freed when its last shared_ptr goes
SetSched(s) ==
    /\ scheduled_processes_' = s.table
    /\ heap' = [p \in Referenced(s) |-> s.heap[p]]
    /\ round_robin_queue_' = s.rr
    /\ multilevel_queues_' = s.mlq
    /\ current_running_process_' = s.cur

\* the substrings classifyProcessByName looks for that occur in a name
ClassTokensIn(name) ==
    CASE name = "systemd" -> {"systemd"}
      [] OTHER -> {}

classifyProcessByName(name) ==
    IF ClassTokensIn(name) \cap {"systemd", "kernel"} # {} THEN "SYSTEM"
    ELSE IF ClassTokensIn(name) \cap {"x", "gnome", "kde", "browser", "game"} # {}
         THEN "INTERACTIVE"
    ELSE IF ClassTokensIn(name) \cap {"build", "compile", "backup"} # {} THEN "BATCH"
    ELSE "INTERACTIVE"

classifyProcess(p, snap) ==
    IF p \notin snap THEN "BATCH"
    ELSE IF cpu_usage(p) > 80 THEN "BATCH"
    ELSE IF cpu_usage(p) < 5 THEN "IDLE"
    ELSE classifyProcessByName(ProcName(p))

\* what ScheduledProcess's constructor leaves in the fields addProcess does
\* not write; waited is the time since last_scheduled, in iterations
ScheduledProcessDefaults ==
    [virtual_runtime |-> 0, queue_level |-> 0, schedule_count |-> 0, waited |-> 0]

Put(f, k, v) == [x \in DOMAIN f \cup {k} |-> IF x = k THEN v ELSE f[x]]

addProcess(s, p, w, algorithm) ==
    IF p \in s.table \/ p \notin w.snapshot THEN s
    ELSE LET d == ScheduledProcessDefaults
             o == [base_priority |-> StatPriority(w.nice[p]),
                   dynamic_priority |-> StatPriority(w.nice[p]),
                   nice_value |-> StatPriority(w.nice[p]),
                   process_class |-> classifyProcess(p, w.snapshot),
                   virtual_runtime |-> d.virtual_runtime,
                   queue_level |-> d.queue_level,
                   schedule_count |-> d.schedule_count,
                   waited |-> d.waited]
             s1 == [s EXCEPT !.table = @ \cup {p}, !.heap = Put(@, p, o)]
         IN  CASE algorithm = "ROUND_ROBIN" -> [s1 EXCEPT !.rr = Append(@, p)]
               [] algorithm = "MULTILEVEL_FEEDBACK" ->
                    [s1 EXCEPT !.mlq[0] = Append(@, p), !.heap[p].queue_level = 0]
               [] OTHER -> s1

RECURSIVE AddAll(_, _, _, _)
AddAll(s, pids, w, algorithm) ==
    IF pids = <<>> THEN s
    ELSE AddAll(addProcess(s, Head(pids), w, algorithm), Tail(pids), w, algorithm)

\* "Remove dead processes" of schedulingLoop
RemoveDead(s, snap) == [s EXCEPT !.table = {p \in @ : isProcessRunning(snap, p)}]

Starving(o) == o.waited > StarvationTicks

calculateDynamicPriority(o, p) ==
    o.base_priority
      + (IF o.process_class = "INTERACTIVE" THEN 5 ELSE 0)
      - (IF cpu_usage(p) > 80 THEN 3 ELSE 0)
      + (IF Starving(o) THEN 10 ELSE 0)

\* calculateVirtualRuntime(a) < calculateVirtualRuntime(b), where
\* calculateVirtualRuntime(x) = virtual_runtime / (1 + nice_value / 20);
\* virtual_runtime is kept in tenths, nice_value + 20 is positive
VirtualRuntimeLess(a, b) ==
    a.virtual_runtime * (20 + b.nice_value) < b.virtual_runtime * (20 + a.nice_value)

updateProcessState(s, snap) ==
    [s EXCEPT !.heap = [p \in DOMAIN s.heap |->
        IF p \in s.table /\ p \in snap
        THEN [s.heap[p] EXCEPT !.dynamic_priority = calculateDynamicPriority(s.heap[p], p)]
        ELSE s.heap[p]]]

boostStarvingProcesses(s) ==
    [s EXCEPT !.heap = [p \in DOMAIN s.heap |->
        IF p \in s.table /\ Starving(s.heap[p])
        THEN [s.heap[p] EXCEPT !.dynamic_priority = Min2(@ + 5, 19)]
        ELSE s.heap[p]]]

\* the loop of getNextPriorityProcess over the rest of the table
RECURSIVE PriorityLoop(_, _, _, _)
PriorityLoop(s, snap, order, best) ==
    IF order = <<>> THEN best
    ELSE LET p == Head(order)
             better == \/ best = NoPid
                       \/ calculateDynamicPriority(s.heap[p], p)
                            > calculateDynamicPriority(s.heap[best], best)
         IN  PriorityLoop(s, snap, Tail(order),
                          IF isProcessRunning(snap, p) /\ better THEN p ELSE best)

getNextPriorityProcess(s, snap) ==
    [s |-> s, next |-> PriorityLoop(s, snap, IterationOrder(s.table), NoPid)]

getNextRoundRobinProcess(s, snap) ==
    LET q == IF s.rr = <<>>
             THEN SelectSeq(IterationOrder(s.table), LAMBDA p : isProcessRunning(snap, p))
             ELSE s.rr
    IN  IF q = <<>> THEN [s |-> s, next |-> NoPid]
        ELSE [s |-> [s EXCEPT !.rr = Append(Tail(q), Head(q))], next |-> Head(q)]

\* a test that already holds at (level + 1) * 3 schedulings
Demoted_AtLeast(o, level) == o.schedule_count >= (level + 1) * 3

\* the test that sends the head of queue level to the next queue
Demoted(o, level) == o.schedule_count > (level + 1) * 3

RECURSIVE MultilevelLoop(_, _)
MultilevelLoop(s, level) ==
    IF level >= max_queue_levels_ THEN [s |-> s, next |-> NoPid]
    ELSE IF s.mlq[level] = <<>> THEN MultilevelLoop(s, level + 1)
    ELSE LET next == Head(s.mlq[level])
             popped == [s EXCEPT !.mlq[level] = Tail(@)]
         IN  IF Demoted(s.heap[next], level)
             THEN LET new_level == Min2(level + 1, max_queue_levels_ - 1)
                  IN  [s |-> [popped EXCEPT !.mlq[new_level] = Append(@, next),
                                            !.heap[next].queue_level = new_level],
                       next |-> next]
             ELSE [s |-> [popped EXCEPT !.mlq[level] = Append(@, next)], next |-> next]

getNextMultilevelProcess(s) == MultilevelLoop(s, 0)

RECURSIVE CFSLoop(_, _, _, _)
CFSLoop(s, snap, order, best) ==
    IF order = <<>> THEN best
    ELSE LET p == Head(order)
             less == best = NoPid \/ VirtualRuntimeLess(s.heap[p], s.heap[best])
         IN  CFSLoop(s, snap, Tail(order),
                     IF isProcessRunning(snap, p) /\ less THEN p ELSE best)

getNextCFSProcess(s, snap) ==
    LET next == CFSLoop(s, snap, IterationOrder(s.table), NoPid)
    IN  IF next = NoPid THEN [s |-> s, next |-> NoPid]
        ELSE [s |-> [s EXCEPT !.heap[next].virtual_runtime = @ + cpu_usage(next)],
              next |-> next]

\* the first loop of selectNextProcess: the first registered real-time pid
\* that is scheduled and running
RealtimeFirst(s, rt, snap) ==
    LET found == SelectSeq(rt, LAMBDA p : p \in s.table /\ isProcessRunning(snap, p))
    IN  IF found = <<>> THEN NoPid ELSE Head(found)

\* selectNextProcess without its first loop
SelectByAlgorithm(s, snap, algorithm) ==
    CASE algorithm = "PRIORITY_BASED" -> getNextPriorityProcess(s, snap)
      [] algorithm = "ROUND_ROBIN" -> getNextRoundRobinProcess(s, snap)
      [] algorithm = "MULTILEVEL_FEEDBACK" -> getNextMultilevelProcess(s)
      [] algorithm = "COMPLETELY_FAIR" -> getNextCFSProcess(s, snap)
      [] algorithm = "CUSTOM_HYBRID" -> getNextPriorityProcess(s, snap)
      [] OTHER -> [s |-> s, next |-> NoPid]

\* a selectNextProcess that lacks the first loop
selectNextProcess_NoRealtime(s, rt, snap, algorithm) == SelectByAlgorithm(s, snap, algorithm)

selectNextProcess(s, rt, snap, algorithm) ==
    IF RealtimeFirst(s, rt, snap) # NoPid
    THEN [s |-> s, next |-> RealtimeFirst(s, rt, snap)]
    ELSE SelectByAlgorithm(s, snap, algorithm)

clearQueues(s) == [s EXCEPT !.rr = <<>>, !.mlq = [l \in Levels |-> <<>>]]

setSchedulingAlgorithm(s, algorithm) ==
    LET order == IterationOrder(s.table)
        c == clearQueues(s)
    IN  CASE algorithm = "MULTILEVEL_FEEDBACK" ->
               [c EXCEPT !.mlq[0] = order,
                         !.heap = [p \in DOMAIN @ |->
                                     IF p \in s.table THEN [@[p] EXCEPT !.queue_level = 0]
                                     ELSE @[p]]]
          [] algorithm = "ROUND_ROBIN" -> [c EXCEPT !.rr = order]
          [] OTHER -> c

\* time passes between two iterations
Sleep(s) ==
    [s EXCEPT !.heap = [p \in DOMAIN @ |-> [@[p] EXCEPT !.waited = Min2(@ + 1, WaitCap)]]]

\* one iteration of schedulingLoop: the tables after it, the world after the
\* setProcessPriority call it makes, and what selectNextProcess returned
schedulingLoop(s, w, rt, algorithm, e) ==
    LET s1 == AddAll(s, IterationOrder(w.snapshot), w, algorithm)
        s2 == RemoveDead(s1, w.snapshot)
        s3 == boostStarvingProcesses(updateProcessState(s2, w.snapshot))
        sel == selectNextProcess(s3, rt, w.snapshot, algorithm)
        next == sel.next
    IN  IF next = NoPid THEN [s |-> Sleep(sel.s), w |-> w, next |-> NoPid]
        ELSE LET s4 == [sel.s EXCEPT !.cur = next]
                 r == setProcessPriority(w, next, s4.heap[next].dynamic_priority, e)
             IN  IF r.ret \in Abandoned
                 THEN [s |-> Sleep(s4), w |-> r.w, next |-> next]
                 ELSE [s |-> Sleep([s4 EXCEPT !.heap[next].waited = 0,
                                              !.heap[next].schedule_count = @ + 1]),
                       w |-> r.w, next |-> next]

(***************************************************************************)
(* The MemoryManager: memory sizes are counted in units of 16 MB.          *)
(***************************************************************************)
\* pids 1..NumMemPids exist on the host of the MemoryManager scenarios
NumMemPids == 8

MemPids == 1..NumMemPids

\* MemTotal of the host of the memory-pressure scenarios
TotalMemory == 200

\* minimum_free_memory_kb_: 512 MB
minimum_free_memory_kb_ == 32

\* resident_memory_kb of a process, as gatherProcessMemoryInfo reads it
Rss(p) ==
    CASE p = 1 -> 9
      [] p = 2 -> 6
      [] p = 3 -> 2
      [] p = 4 -> 8
      [] p = 5 -> 5
      [] p = 6 -> 4
      [] p = 7 -> 3
      [] OTHER -> 1

\* gatherSystemMemoryInfo: used_memory_kb is MemTotal - MemAvailable
MemoryInfo(total, available) ==
    [total_memory_kb |-> total, used_memory_kb |-> total - available,
     available_memory_kb |-> available]

\* SystemMemoryInfo before the first cycle
NoMemory == MemoryInfo(0, 0)

\* getMemoryUsagePercent() >= half / 2, for the double 100.0 * used / total,
\* which is 0.0 when total is 0
UsageAtLeast(info, half) ==
    IF info.total_memory_kb > 0
    THEN 2 * 100 * info.used_memory_kb >= half * info.total_memory_kb
    ELSE 0 >= half

\* a calculateMemoryPressure whose middle threshold is an integer division
calculateMemoryPressure_Truncated(info, low, critical) ==
    IF UsageAtLeast(info, 2 * critical) THEN "CRITICAL"
    ELSE IF UsageAtLeast(info, 2 * ((low + critical) \div 2)) THEN "HIGH"
    ELSE IF UsageAtLeast(info, 2 * low) THEN "MEDIUM"
    ELSE "LOW"

calculateMemoryPressure(info, low, critical) ==
    IF UsageAtLeast(info, 2 * critical) THEN "CRITICAL"
    ELSE IF UsageAtLeast(info, low + critical) THEN "HIGH"
    ELSE IF UsageAtLeast(info, 2 * low) THEN "MEDIUM"
    ELSE "LOW"

\* the pids of table, largest resident_memory_kb first
RECURSIVE ByRss(_)
ByRss(table) ==
    IF DOMAIN table = {} THEN <<>>
    ELSE LET m == CHOOSE p \in DOMAIN table :
                    \A q \in DOMAIN table :
                       table[p] > table[q] \/ (table[p] = table[q] /\ p <= q)
         IN  <<m>> \o ByRss([q \in DOMAIN table \ {m} |-> table[q]])

identifyMemoryHogs(table, count) ==
    SubSeq(ByRss(table), 1, Min2(count, Cardinality(DOMAIN table)))

\* what a monitoring cycle did: the pressure it saw, the handler it ran, its
\* calls of clearPageCache, clearAllCaches and compactSystemMemory, the
\* terminations of killMemoryHoggingProcesses, and the calls the
\* ProcessManager made to the host for it
NoCycle ==
    [pressure |-> "NONE", handler |-> "none", page_cache_calls |-> 0,
     all_caches_calls |-> 0, compact_calls |-> 0, needed |-> 0,
     candidates |-> <<>>, killed |-> <<>>, calls |-> <<>>, ret |-> "none"]

\* a cycle so far: the world, what it did, and "raised" once an exception
\* has left a handler
Cycle(w, c) == [w |-> w, c |-> c]

\* an optimizeProcessMemory that suspends the process
optimizeProcessMemory_Pauses(w, p, e) == pauseProcess(w, p, e)

\* optimizeProcessMemory: the priority of a running process is set to LOW
optimizeProcessMemory(w, p, e) ==
    IF ~isProcessRunning(w.snapshot, p) THEN Res(w, "false", <<>>)
    ELSE setProcessPriority(w, p, PriorityLOW, e)

\* the loop of handleHighMemoryPressure and of the strategies over the
\* memory hogs
RECURSIVE OptimizeLoop(_, _, _)
OptimizeLoop(r, hogs, e) ==
    IF hogs = <<>> \/ r.c.ret # "none" THEN r
    ELSE LET p == Head(hogs)
             o == optimizeProcessMemory(r.w, p, e)
             c == [r.c EXCEPT !.calls = @ \o o.calls]
         IN  OptimizeLoop(Cycle(o.w, IF o.ret \in Abandoned
                                     THEN [c EXCEPT !.ret = o.ret] ELSE c),
                          Tail(hogs), e)

\* the loop of killMemoryHoggingProcesses; freed is the resident memory of
\* the processes whose terminateProcess returned true
RECURSIVE KillLoop(_, _, _, _, _, _)
KillLoop(r, table, hogs, freed, target_free_kb, e) ==
    IF hogs = <<>> \/ freed >= target_free_kb \/ r.c.ret # "none" THEN r
    ELSE LET p == Head(hogs)
             rss == IF p \in DOMAIN table THEN table[p] ELSE 0
         IN  IF ~canModifyProcess(r.w, p)
             THEN KillLoop(r, table, Tail(hogs), freed, target_free_kb, e)
             ELSE LET t == terminateProcess(r.w, p, e)
                      c == [r.c EXCEPT !.calls = @ \o t.calls]
                  IN  IF t.ret \in Abandoned
                      THEN Cycle(t.w, [c EXCEPT !.ret = t.ret])
                      ELSE IF t.ret = "true"
                      THEN KillLoop(Cycle(t.w, [c EXCEPT !.killed = Append(@, p)]),
                                    table, Tail(hogs), freed + rss, target_free_kb, e)
                      ELSE KillLoop(Cycle(t.w, c), table, Tail(hogs), freed, target_free_kb, e)

killMemoryHoggingProcesses(r, table, target_free_kb, e) ==
    LET hogs == identifyMemoryHogs(table, 10)
    IN  KillLoop(Cycle(r.w, [r.c EXCEPT !.candidates = hogs]), table, hogs, 0, target_free_kb, e)

clearAllCaches(r) == Cycle(r.w, [r.c EXCEPT !.all_caches_calls = @ + 1])

emergencyMemoryCleanup(r) ==
    Cycle(r.w, [clearAllCaches(r).c EXCEPT !.compact_calls = @ + 1])

clearPageCache(r) == Cycle(r.w, [r.c EXCEPT !.page_cache_calls = @ + 1])

compactSystemMemory(r) == Cycle(r.w, [r.c EXCEPT !.compact_calls = @ + 1])

handleMediumMemoryPressure(r) == clearPageCache(r)

handleHighMemoryPressure(r, table, e) ==
    OptimizeLoop(clearAllCaches(r), identifyMemoryHogs(table, 5), e)

handleCriticalMemoryPressure(r, table, info, e) ==
    LET r1 == clearAllCaches(r)
        target_free == minimum_free_memory_kb_
        current_free == info.available_memory_kb
    IN  IF current_free < target_free
        THEN killMemoryHoggingProcesses(
                 Cycle(r1.w, [emergencyMemoryCleanup(r1).c
                                 EXCEPT !.needed = target_free - current_free]),
                 table, target_free - current_free, e)
        ELSE r1

handleMemoryPressure(r, level, table, info, e) ==
    CASE level = "MEDIUM" ->
           handleMediumMemoryPressure(Cycle(r.w, [r.c EXCEPT !.handler = "medium"]))
      [] level = "HIGH" ->
           handleHighMemoryPressure(Cycle(r.w, [r.c EXCEPT !.handler = "high"]), table, e)
      [] level = "CRITICAL" ->
           handleCriticalMemoryPressure(Cycle(r.w, [r.c EXCEPT !.handler = "critical"]),
                                        table, info, e)
      [] OTHER -> r

\* getMemoryUsagePercent() > pct
UsageAbove(info, pct) ==
    IF info.total_memory_kb > 0
    THEN 100 * info.used_memory_kb > pct * info.total_memory_kb
    ELSE 0 > pct

applyConservativeStrategy(r, info) ==
    IF UsageAbove(info, 85) THEN clearPageCache(r) ELSE r

applyBalancedStrategy(r, table, info, e) ==
    IF UsageAbove(info, 75)
    THEN OptimizeLoop(clearPageCache(r), identifyMemoryHogs(table, 3), e)
    ELSE r

applyAggressiveStrategy(r, table, e) ==
    OptimizeLoop(compactSystemMemory(clearAllCaches(r)), identifyMemoryHogs(table, 5), e)

MemoryStrategies == {"CONSERVATIVE", "BALANCED", "AGGRESSIVE"}

\* optimizeSystemMemory: what it did, as a cycle whose handler is the
\* strategy it applied
optimizeSystemMemory(w, strategy, table, info, e) ==
    LET r == Cycle(w, [NoCycle EXCEPT !.handler = strategy])
        d == CASE strategy = "CONSERVATIVE" -> applyConservativeStrategy(r, info)
               [] strategy = "BALANCED" -> applyBalancedStrategy(r, table, info, e)
               [] strategy = "AGGRESSIVE" -> applyAggressiveStrategy(r, table, e)
               [] OTHER -> r
    IN  IF d.c.ret # "none" THEN d ELSE Cycle(d.w, [d.c EXCEPT !.ret = "returned"])

\* one iteration of monitoringLoop: the world and process_memory_info_ after
\* it, and what it did
monitoringLoop(w, table, info, low, critical, auto, e) ==
    LET gathered == [p \in DOMAIN table \cup w.snapshot |->
                        IF p \in w.snapshot THEN Rss(p) ELSE table[p]]
        pressure == calculateMemoryPressure(info, low, critical)
        c0 == [NoCycle EXCEPT !.pressure = pressure]
        r == IF pressure # "LOW" /\ auto
             THEN handleMemoryPressure(Cycle(w, c0), pressure, gathered, info, e)
             ELSE Cycle(w, c0)
    IN  IF r.c.ret # "none"
        THEN [w |-> r.w, c |-> r.c, table |-> gathered]
        ELSE [w |-> r.w, c |-> [r.c EXCEPT !.ret = "returned"],
              table |-> [p \in {q \in DOMAIN gathered : isProcessRunning(w.snapshot, q)}
                            |-> gathered[p]]]

(***************************************************************************)
(* The SystemMonitor's readings.  CPU times are kept in clock ticks (the   *)
(* code divides them by sysconf(_SC_CLK_TCK)).                             *)
(***************************************************************************)
\* getProcessInfo: cpu_time is cpu_time_user + cpu_time_system, start_time is
\* the time of the poll, cpu_usage is 0.0
getProcessInfo(p, cpu, now) == [cpu_time |-> cpu[p], start_time |-> now, cpu_usage |-> 0]

\* getProcessList: one ProcessInfo per pid of /proc
getProcessList(live, cpu, now) == [p \in live |-> getProcessInfo(p, cpu, now)]

\* what a getter returned before any was called
NoGot == [kind |-> "none", poll |-> 0, completed |-> 0]

\* getSystemStats; poll and total are the number of the poll that read it and
\* the total of the cpu line it read
getSystemStats(n, total) == [poll |-> n, total |-> total]

(***************************************************************************)
(* ModeManager::detectOptimalMode and what it reads.                       *)
(***************************************************************************)
\* the processes a reading may contain: their name, the CPU they use in per
\* cent, and their VmRSS in MB
DetectProcs == 1..6

DetectName(i) ==
    CASE i = 1 -> "Steam"
      [] i = 2 -> "steam"
      [] i = 3 -> "chrome"
      [] i = 4 -> "chrome"
      [] i = 5 -> "vscode"
      [] OTHER -> "bash"

DetectCpu(i) == IF i = 1 THEN 90 ELSE 1

DetectRssMB(i) == IF i = 2 THEN 2048 ELSE 512

\* the indicators that occur in the lower-cased name
GameIndicatorsIn(name) == IF name \in {"Steam", "steam"} THEN {"steam"} ELSE {}

ProductivityIndicatorsIn(name) ==
    CASE name = "chrome" -> {"chrome"}
      [] name = "vscode" -> {"code", "vscode"}
      [] OTHER -> {}

\* the constructor's battery_threshold_percent_ and thermal_threshold_celsius_
battery_threshold_percent_ == 20
thermal_threshold_celsius_ == 80

\* a reading of the host: BAT0/status is "Discharging", BAT0/capacity,
\* thermal_zone0/temp in millidegrees, and the processes that run
Readings ==
    [discharging : BOOLEAN, capacity : {19, 20}, temp : {80000, 80001},
     running : SUBSET DetectProcs]

NoReading == [discharging |-> FALSE, capacity |-> 100, temp |-> 50000, running |-> {}]

\* the ProcessInfo the SystemMonitor reports for a process of a reading
DetectInfo(i) ==
    [name |-> DetectName(i), cpu_usage |-> cpu_usage(i), memory_usage_kb |-> DetectRssMB(i) * 1024]

isLowPowerNeeded(r) ==
    \/ r.discharging /\ r.capacity < battery_threshold_percent_
    \/ r.temp > thermal_threshold_celsius_ * 1000

isGamingActivity(r) ==
    \E i \in r.running :
       /\ GameIndicatorsIn(DetectInfo(i).name) # {}
       /\ \/ DetectInfo(i).cpu_usage > 30
          \/ DetectInfo(i).memory_usage_kb > 1024 * 1024

isProductivityActivity(r) ==
    Cardinality({i \in r.running : ProductivityIndicatorsIn(DetectInfo(i).name) # {}}) >= 2

detectOptimalMode(r) ==
    IF isLowPowerNeeded(r) THEN "POWER_SAVING"
    ELSE IF isGamingActivity(r) THEN "GAMING"
    ELSE IF isProductivityActivity(r) THEN "PRODUCTIVITY"
    ELSE "BALANCED"

\* no quick action has been called
\* no callback is being invoked
NoCallback == [callback |-> "none", held |-> {}, blocked |-> FALSE]

NoBoost == [pc |-> "idle", original_mode |-> "NONE"]

\* threads of the ThreadPool; Scheduler's constructor asks for 4
NumPoolWorkers == 2

\* Scheduler::Scheduler(): running(false), threadPool(4); ThreadPool's
\* constructor clears stop_flag and starts the workers, which wait for tasks.
\* Tasks are numbered in the order of their enqueue; ran lists the tasks a
\* worker has run.
PoolConstructed ==
    [running |-> FALSE, mtx |-> "free", worker |-> "none", stopPc |-> "idle",
     stop_flag |-> FALSE, tasks |-> <<>>,
     workers |-> [w \in 1..NumPoolWorkers |-> [pc |-> "wait", task |-> 0]],
     ran |-> <<>>, cycles |-> 0, stops |-> 0]

\* last, when the last step was no ProcessManager call
NoLast ==
    [op |-> "none", pid |-> 0, guard |-> FALSE, ret |-> "none",
     calls |-> <<>>, nice0 |-> 0, state0 |-> "NONE"]

(***************************************************************************)
(* Initial state: every process runs at nice 0 and has been polled once;   *)
(* nothing is managed; the ModeManager is in Balanced mode.                *)
(***************************************************************************)
InitReading(live, nice, low, critical, r) ==
    /\ reading = r
    /\ detected = "NONE"
    /\ boost = NoBoost
    /\ destroyed = FALSE
    /\ scheduler_active_ = FALSE
    /\ scheduler_thread_ = "none"
    /\ stopPc = "idle"
    /\ threads = 0
    /\ scheduler_mutex_ = "free"
    /\ callerPc = "idle"
    /\ started = "none"
    /\ invoking = NoCallback
    /\ time_slice = <<>>
    /\ poolSched = PoolConstructed
    /\ alive = live
    /\ hostNice = nice
    /\ hostStopped = {}
    /\ governor = "ondemand"
    /\ snapshot = live
    /\ managed_processes_ = <<>>
    /\ pmStuck = FALSE
    /\ resume_callee \in {"public", "internal"}
    /\ last = NoLast
    /\ current_algorithm_ = "PRIORITY_BASED"
    /\ optimization_strategy_ = "BALANCED"
    /\ scheduled_processes_ = {}
    /\ heap = <<>>
    /\ round_robin_queue_ = <<>>
    /\ multilevel_queues_ = [l \in Levels |-> <<>>]
    /\ current_running_process_ = NoPid
    /\ realtime_processes_ = <<>>
    /\ picked = NoPid
    /\ ticks = 0
    /\ process_memory_info_ = <<>>
    /\ auto_optimization_enabled_ = FALSE
    /\ low_memory_threshold_ = low
    /\ critical_memory_threshold_ = critical
    /\ system_memory_info_ = NoMemory
    /\ memLast = NoCycle
    /\ hostCpu = [p \in DOMAIN nice |-> 0]
    /\ hostTotal = 0
    /\ processes_ = getProcessList(live, [p \in DOMAIN nice |-> 0], 0)
    /\ system_stats_ = getSystemStats(0, 0)
    /\ monitoring_active_ = FALSE
    /\ monPc = "none"
    /\ new_processes = <<>>
    /\ new_stats = getSystemStats(0, 0)
    /\ polls = 0
    /\ delivered = <<>>
    /\ data_mutex_ = "free"
    /\ got = NoGot
    /\ current_mode_ = "BALANCED"
    /\ previous_mode_ = "BALANCED"
    /\ mode_switching_active_ = FALSE
    /\ mode_mutex_ = 0
    /\ state_backup_ = NoBackup
    /\ pc = [t \in Callers |-> "idle"]
    /\ target = [t \in Callers |-> "NONE"]
    /\ pre = [t \in Callers |-> NoPre]
    /\ ret = [t \in Callers |-> "none"]
    /\ govFailed = [t \in Callers |-> FALSE]
    /\ prevCall = [t \in Callers |-> NoCall]
    /\ switches = 0

InitAll(live, nice, low, critical) == InitReading(live, nice, low, critical, NoReading)

\* the thresholds of MemoryManager's constructor
InitNice(live, nice) == InitAll(live, nice, 70, 90)

InitWith(live) == InitNice(live, [p \in Pids |-> 0])

(***************************************************************************)
(* The host and the SystemMonitor.                                         *)
(***************************************************************************)
\* a process exits
Die(p) ==
    /\ p \in alive
    /\ alive' = alive \ {p}
    /\ hostStopped' = hostStopped \ {p}
    /\ hostNice' = [hostNice EXCEPT ![p] = 0]
    /\ last' = NoLast
    /\ UNCHANGED <<obsVars, governor, snapshot, managed_processes_, pmStuck,
                   resume_callee, peerVars, modeVars>>

\* SystemMonitor::monitorLoop publishes a poll
Poll ==
    /\ snapshot' = alive
    /\ processes_' = getProcessList(alive, hostCpu, polls)
    /\ last' = NoLast
    /\ UNCHANGED <<cpuVars, monVars, detectVars, boost, auxVars, hostVars, managed_processes_, pmStuck, resume_callee,
                   peerVars, modeVars>>

(***************************************************************************)
(* Calls of ProcessManager's operations by its users.                      *)
(***************************************************************************)
StateOf(p) ==
    IF p \in DOMAIN managed_processes_ THEN managed_processes_[p].current_state ELSE "NONE"

DidBody(op, p, r) ==
    /\ SetWorld(r.w)
    /\ last' = [op |-> op, pid |-> p,
                guard |-> IF p \in Pids THEN canModifyProcess(World, p) ELSE FALSE,
                ret |-> r.ret, calls |-> r.calls,
                nice0 |-> IF p \in Pids THEN hostNice[p] ELSE 0,
                state0 |-> StateOf(p)]
    /\ UNCHANGED <<governor, resume_callee, peerVars, modeVars>>

Did(op, p, r) == DidBody(op, p, r) /\ UNCHANGED obsVars

TerminateProcess(p) ==
    \E e \in TermEnvs : Did("terminate", p, terminateProcess(World, p, e))

PauseProcess(p) ==
    \E e \in CallEnvs : Did("pause", p, pauseProcess(World, p, e))

ResumeProcess(p) ==
    \E e \in ResumeEnvs : Did("resume", p, resumeProcess(World, p, resume_callee, e))

SmartTerminateProcess(p) ==
    \E e \in TermEnvs : Did("smart_terminate", p, SmartTerminate(World, p, e))

SetProcessPriority(p, n) ==
    \E e \in CallEnvs : Did("set_nice", p, setProcessPriority(World, p, n, e))

AddToManaged(p, c) ==
    Did("add", p, addToManaged(World, p, c))

RemoveFromManaged(p) ==
    \E e \in LockedEnvs : Did("remove", p, removeFromManaged(World, p, resume_callee, e))

RestoreAllProcesses ==
    \E e \in LockedEnvs :
      \E order \in {o \in [1..Cardinality(DOMAIN managed_processes_) -> DOMAIN managed_processes_] :
                       \A i, j \in DOMAIN o : i # j => o[i] # o[j]} :
        Did("restore_all", 0, restoreAllProcesses(World, order, resume_callee, e))

PauseProcessesByCategory(c) ==
    \E e \in LockedEnvs : Did("pause_category", 0, pauseProcessesByCategory(World, c, e))

ResumeProcessesByCategory(c) ==
    \E e \in LockedEnvs :
        Did("resume_category", 0, resumeProcessesByCategory(World, c, resume_callee, e))

\* ProcessManager::monitoringLoop's periodic step
UpdateManagedProcessInfo ==
    /\ ~pmStuck
    /\ SetWorld(updateManagedProcessInfo(World).w)
    /\ last' = NoLast
    /\ UNCHANGED <<obsVars, governor, resume_callee, peerVars, modeVars>>

Categories == {"gaming", "user"}

\* the processes of the ProcessManager scenarios: systemd and steam run; pid 3
\* names no process
LivePM == {1, 2}

InitPM == InitWith(LivePM)

NextPM ==
    \/ \E p \in Pids : Die(p)
    \/ Poll
    \/ \E p \in Pids : TerminateProcess(p)
    \/ \E p \in Pids : SmartTerminateProcess(p)
    \/ \E p \in Pids : PauseProcess(p)
    \/ \E p \in Pids : ResumeProcess(p)
    \/ \E p \in Pids, n \in NiceInputs : SetProcessPriority(p, n)
    \/ \E p \in Pids, c \in BOOLEAN : AddToManaged(p, c)
    \/ \E p \in Pids : RemoveFromManaged(p)
    \/ RestoreAllProcesses
    \/ \E c \in Categories : PauseProcessesByCategory(c)
    \/ \E c \in Categories : ResumeProcessesByCategory(c)
    \/ UpdateManagedProcessInfo

SpecPM == InitPM /\ [][NextPM]_vars

(***************************************************************************)
(* ModeManager::switchToMode, one step per caller at a time.  pc[t] is the *)
(* caller's place in it:                                                   *)
(*   idle -> compare -> backup -> apply -> prio -> gov -> commit -> done   *)
(* with "catch" for the handler of the try block and "hung" for a caller   *)
(* that never returns.                                                     *)
(***************************************************************************)
Set(f, t, v) == [f EXCEPT ![t] = v]

\* the modes callers ask for
SwitchTargets == {"GAMING", "POWER_SAVING", "BALANCED"}

\* entry; the load of mode_switching_active_
SwitchToMode(t, m) ==
    /\ pc[t] = "idle"
    /\ switches < MaxSwitches
    /\ switches' = switches + 1
    /\ target' = Set(target, t, m)
    /\ pre' = Set(pre, t, [mode |-> current_mode_, previous |-> previous_mode_,
                           algorithm |-> current_algorithm_,
                           strategy |-> optimization_strategy_,
                           managed |-> managed_processes_, nice |-> hostNice,
                           running |-> alive \ hostStopped])
    /\ govFailed' = Set(govFailed, t, FALSE)
    /\ IF mode_switching_active_
          THEN ret' = Set(ret, t, "false") /\ pc' = Set(pc, t, "done")
          ELSE ret' = Set(ret, t, "none") /\ pc' = Set(pc, t, "compare")
    /\ last' = NoLast
    /\ UNCHANGED <<obsVars, hostVars, snapshot, managed_processes_, pmStuck, resume_callee, peerVars,
                   current_mode_, previous_mode_, mode_switching_active_, mode_mutex_,
                   state_backup_, prevCall>>

\* the test of the requested mode and mode_switching_active_.store(true)
SwitchCompare(t) ==
    /\ pc[t] = "compare"
    /\ IF AlreadyInMode(target[t], current_mode_)
          THEN /\ ret' = Set(ret, t, "false")
               /\ pc' = Set(pc, t, "done")
               /\ UNCHANGED mode_switching_active_
          ELSE /\ mode_switching_active_' = TRUE
               /\ pc' = Set(pc, t, "backup")
               /\ UNCHANGED ret
    /\ UNCHANGED <<obsVars, hostVars, snapshot, pmVars, peerVars, current_mode_, previous_mode_,
                   mode_mutex_, state_backup_, target, pre, govFailed, prevCall, switches>>

\* backupCurrentState(); getAllManagedProcesses locks processes_mutex_
SwitchBackup(t) ==
    /\ pc[t] = "backup"
    /\ IF pmStuck
          THEN pc' = Set(pc, t, "hung") /\ UNCHANGED state_backup_
          ELSE /\ state_backup_' = backupCurrentState(state_backup_, World,
                                                      current_algorithm_, governor)
               /\ pc' = Set(pc, t, "apply")
    /\ UNCHANGED <<obsVars, hostVars, snapshot, pmVars, peerVars, current_mode_, previous_mode_,
                   mode_switching_active_, mode_mutex_, target, pre, ret, govFailed,
                   prevCall, switches>>

\* appleModeConfiguration: lock mode_mutex_, configureScheduler,
\* configureMemoryManager
SwitchApply(t) ==
    /\ pc[t] = "apply"
    /\ mode_mutex_ = 0
    /\ mode_mutex_' = t
    /\ current_algorithm_' = ModeConfig(target[t]).scheduling_algorithm
    /\ SetSched(setSchedulingAlgorithm(Sched, ModeConfig(target[t]).scheduling_algorithm))
    /\ optimization_strategy_' = ModeConfig(target[t]).memory_strategy
    /\ pc' = Set(pc, t, "prio")
    /\ UNCHANGED <<schedAux, memVars>>
    /\ UNCHANGED <<obsVars, hostVars, snapshot, pmVars, current_mode_, previous_mode_,
                   mode_switching_active_, state_backup_, target, pre, ret, govFailed,
                   prevCall, switches>>

\* configureProcessPriorities
SwitchPriorities(t) ==
    /\ pc[t] = "prio"
    /\ LET calls == PriorityCalls(ModeConfig(target[t]), snapshot)
       IN  \E k \in 0..Len(calls) :
             LET r == RunCalls(World, calls, 1, k, resume_callee, "block")
             IN  /\ SetWorld(r.w)
                 /\ CASE r.ret = "ok" ->
                           pc' = Set(pc, t, "gov") /\ UNCHANGED mode_mutex_
                      [] r.ret = "blocked" ->
                           pc' = Set(pc, t, "hung") /\ UNCHANGED mode_mutex_
                      [] OTHER ->
                           pc' = Set(pc, t, "catch") /\ mode_mutex_' = 0
    /\ UNCHANGED <<obsVars, governor, resume_callee, last, peerVars, current_mode_, previous_mode_,
                   mode_switching_active_, state_backup_, target, pre, ret, govFailed,
                   prevCall, switches>>

\* configureCpuGovernor, which logs a refused write and goes on; the end of
\* appleModeConfiguration
SwitchGovernor(t) ==
    /\ pc[t] = "gov"
    /\ \E ok \in BOOLEAN :
          /\ governor' = IF ok THEN ModeConfig(target[t]).cpu_governor ELSE governor
          /\ govFailed' = Set(govFailed, t, ~ok)
    /\ mode_mutex_' = 0
    /\ pc' = Set(pc, t, "commit")
    /\ UNCHANGED <<obsVars, alive, hostNice, hostStopped, snapshot, pmVars, peerVars, current_mode_,
                   previous_mode_, mode_switching_active_, state_backup_, target, pre, ret,
                   prevCall, switches>>

\* previous_mode_ and current_mode_, notifyModeChange (a subscriber's callback
\* may throw), mode_switching_active_.store(false), return true
SwitchCommit(t) ==
    /\ pc[t] = "commit"
    /\ previous_mode_' = current_mode_
    /\ current_mode_' = target[t]
    /\ \E throws \in BOOLEAN :
          IF throws
          THEN /\ pc' = Set(pc, t, "catch")
               /\ UNCHANGED <<mode_switching_active_, ret>>
          ELSE /\ mode_switching_active_' = FALSE
               /\ ret' = Set(ret, t, "true")
               /\ pc' = Set(pc, t, "done")
    /\ UNCHANGED <<obsVars, hostVars, snapshot, pmVars, peerVars, mode_mutex_, state_backup_,
                   target, pre, govFailed, prevCall, switches>>

\* the catch block: restoreSystemState(), mode_switching_active_.store(false),
\* return false.  An exception that leaves restoreSystemState leaves
\* switchToMode too.
SwitchRestore(t) ==
    /\ pc[t] = "catch"
    /\ IF ~state_backup_.is_valid
       THEN /\ mode_switching_active_' = FALSE
            /\ ret' = Set(ret, t, "false")
            /\ pc' = Set(pc, t, "done")
            /\ UNCHANGED <<hostVars, snapshot, managed_processes_, pmStuck,
                           current_algorithm_, schedState, state_backup_>>
       ELSE LET calls == RestoreCalls(state_backup_, snapshot)
            IN  \E ok \in BOOLEAN, k \in 0..Len(calls), rl \in {"block", "throw"} :
                  LET r == RunCalls(World, calls, 1, k, resume_callee, rl)
                  IN  /\ current_algorithm_' = state_backup_.scheduler_algorithm
                      /\ SetSched(setSchedulingAlgorithm(Sched,
                                                         state_backup_.scheduler_algorithm))
                      /\ governor' = IF ok /\ state_backup_.cpu_governor # ""
                                     THEN state_backup_.cpu_governor ELSE governor
                      /\ SetWorld(r.w)
                      /\ CASE r.ret = "ok" ->
                                /\ state_backup_' = [state_backup_ EXCEPT !.is_valid = FALSE]
                                /\ mode_switching_active_' = FALSE
                                /\ ret' = Set(ret, t, "false")
                                /\ pc' = Set(pc, t, "done")
                           [] r.ret = "blocked" ->
                                /\ pc' = Set(pc, t, "hung")
                                /\ UNCHANGED <<state_backup_, mode_switching_active_, ret>>
                           [] OTHER ->
                                /\ ret' = Set(ret, t, "raised")
                                /\ pc' = Set(pc, t, "done")
                                /\ UNCHANGED <<state_backup_, mode_switching_active_>>
    /\ UNCHANGED <<obsVars, resume_callee, last, optimization_strategy_, schedAux, memVars,
                   current_mode_, previous_mode_, mode_mutex_, target, pre, govFailed,
                   prevCall, switches>>

\* the caller has the result and may call again
SwitchReturn(t) ==
    /\ pc[t] = "done"
    /\ prevCall' = Set(prevCall, t, [target |-> target[t], ret |-> ret[t]])
    /\ pc' = Set(pc, t, "idle")
    /\ target' = Set(target, t, "NONE")
    /\ pre' = Set(pre, t, NoPre)
    /\ ret' = Set(ret, t, "none")
    /\ govFailed' = Set(govFailed, t, FALSE)
    /\ UNCHANGED <<obsVars, hostVars, snapshot, pmVars, peerVars, current_mode_, previous_mode_,
                   mode_switching_active_, mode_mutex_, state_backup_, switches>>

SwitchStep(t) ==
    \/ \E m \in SwitchTargets : SwitchToMode(t, m)
    \/ SwitchCompare(t)
    \/ SwitchBackup(t)
    \/ SwitchApply(t)
    \/ SwitchPriorities(t)
    \/ SwitchGovernor(t)
    \/ SwitchCommit(t)
    \/ SwitchRestore(t)
    \/ SwitchReturn(t)

AllIdle == \A t \in Callers : pc[t] = "idle"

\* between two calls of switchToMode the application puts a process under
\* management (addToManaged(pid, false))
Manage(p) ==
    /\ AllIdle
    /\ p \notin DOMAIN managed_processes_
    /\ SetWorld(addToManaged(World, p, FALSE).w)
    /\ UNCHANGED <<obsVars, governor, resume_callee, last, peerVars, modeVars>>

\* a process other than init exits between two calls
Exits(p) == AllIdle /\ ProcName(p) # "systemd" /\ Die(p)

\* the processes of the ModeManager scenarios
LiveMode == {1, 2, 3}

InitMode == InitWith(LiveMode)

\* one caller: the calls of switchToMode follow one another
NextModeSeq ==
    \/ SwitchStep(1)
    \/ \E p \in Pids : Manage(p)
    \/ \E p \in Pids : Exits(p)

SpecModeSeq == InitMode /\ [][NextModeSeq]_vars

\* the processes the application manages in the scenarios with several callers
GamePids == {p \in Pids : categorizeProcess(ProcName(p)) = "gaming"}

\* callers on several threads (the application, autoModeDetectionLoop, the
\* quick actions)
NextMode ==
    \/ \E t \in Callers : SwitchStep(t)
    \/ \E p \in GamePids : Manage(p)

SpecMode == InitMode /\ [][NextMode]_vars

(***************************************************************************)
(* The Scheduler's thread and its users.                                   *)
(***************************************************************************)
\* what may happen inside the setProcessPriority call of schedulingLoop: the
\* ProcessManager's callback throws or not
SchedEnvs == {e \in Envs : e.dies /\ ~e.gone /\ e.rl = "block"}

\* what one iteration of schedulingLoop, of at most n in a run, does to the
\* Scheduler, the ProcessManager and the host
SchedulingLoopBody(n) ==
    /\ ticks < n
    /\ \E e \in SchedEnvs :
         LET r == schedulingLoop(Sched, World, realtime_processes_, current_algorithm_, e)
         IN  /\ SetSched(r.s)
             /\ SetWorld(r.w)
             /\ picked' = r.next
    /\ ticks' = ticks + 1
    /\ last' = NoLast
    /\ UNCHANGED <<governor, resume_callee, current_algorithm_, optimization_strategy_,
                   realtime_processes_, memVars, modeVars>>

\* one iteration of schedulingLoop, of at most n in a run
SchedulingLoopUpTo(n) == SchedulingLoopBody(n) /\ UNCHANGED obsVars

SchedulingLoop == SchedulingLoopUpTo(MaxTicks)

\* what setSchedulingAlgorithm does with scheduler_mutex_ held
SetSchedulingAlgorithmBody(a) ==
    /\ current_algorithm_' = a
    /\ SetSched(setSchedulingAlgorithm(Sched, a))
    /\ UNCHANGED <<hostVars, snapshot, pmVars, optimization_strategy_, schedAux,
                   memVars, modeVars>>

SetSchedulingAlgorithm(a) == SetSchedulingAlgorithmBody(a) /\ UNCHANGED obsVars

\* the sequence q with x put in at place i
InsertAt(q, i, x) == SubSeq(q, 1, i - 1) \o <<x>> \o SubSeq(q, i, Len(q))

\* a process is registered as real-time; its priority gives its place
RegisterRealtime(p) ==
    /\ p \notin Range(realtime_processes_)
    /\ Len(realtime_processes_) < MaxRealtime
    /\ \E i \in 1..(Len(realtime_processes_) + 1) :
         realtime_processes_' = InsertAt(realtime_processes_, i, p)
    /\ UNCHANGED <<obsVars, hostVars, snapshot, pmVars, current_algorithm_, optimization_strategy_,
                   schedState, picked, ticks, memVars, modeVars>>

\* the nice values of the processes of the Scheduler scenarios
SchedNice == [p \in Pids |-> 0]

\* the processes of the Scheduler scenarios
LiveSched == {1, 2, 3}

InitSched ==
    /\ InitNice(LiveSched, SchedNice)
    /\ resume_callee = "public"

\* the processes that exit and that are registered as real-time in the
\* Scheduler scenarios: all but systemd
UserPids == {p \in LiveSched : ProcName(p) # "systemd"}

NextSched ==
    \/ SchedulingLoop
    \/ \E a \in Algorithms : SetSchedulingAlgorithm(a)
    \/ \E p \in UserPids : RegisterRealtime(p)
    \/ \E p \in UserPids : Die(p)
    \/ Poll

SpecSched == InitSched /\ [][NextSched]_vars

\* iterations of schedulingLoop in one run under MultilevelFeedback
MaxFeedbackTicks == 16

\* the processes of the MultilevelFeedback scenario
LiveFeedback == {2, 3}

InitFeedback ==
    /\ InitNice(LiveFeedback, SchedNice)
    /\ resume_callee = "public"

\* the application selects MultilevelFeedback, then the Scheduler's thread runs
NextFeedback ==
    \/ ticks = 0 /\ SetSchedulingAlgorithm("MULTILEVEL_FEEDBACK")
    \/ current_algorithm_ = "MULTILEVEL_FEEDBACK" /\ SchedulingLoopUpTo(MaxFeedbackTicks)
    \/ Die(3)
    \/ Poll

SpecFeedback == InitFeedback /\ [][NextFeedback]_vars

\* iterations of schedulingLoop in one run under Fair scheduling
MaxFairTicks == 12

\* the two processes of the Fair scenario, one of nice -10 and one of nice 10
LiveFair == {2, 3}

FairNices ==
    {[p \in Pids |-> IF p = 2 THEN -10 ELSE IF p = 3 THEN 10 ELSE 0],
     [p \in Pids |-> IF p = 2 THEN 10 ELSE IF p = 3 THEN -10 ELSE 0]}

InitFair ==
    /\ \E nice \in FairNices : InitNice(LiveFair, nice)
    /\ resume_callee = "public"

\* the application selects Fair scheduling, then the Scheduler's thread runs
NextFair ==
    \/ ticks = 0 /\ SetSchedulingAlgorithm("COMPLETELY_FAIR")
    \/ current_algorithm_ = "COMPLETELY_FAIR" /\ SchedulingLoopUpTo(MaxFairTicks)

SpecFair == InitFair /\ [][NextFair]_vars

\* iterations of schedulingLoop in one run of the starvation scenario
MaxStarveTicks == 8

\* the starvation scenario: pids 1 and 2 of nice 0, pid 3 of nice 19
StarveNice == [p \in Pids |-> IF p = 3 THEN 19 ELSE 0]

InitStarve ==
    /\ InitNice({1, 2, 3}, StarveNice)
    /\ resume_callee = "public"

\* the Scheduler's thread runs under PriorityBased, its algorithm after
\* construction
NextStarve == SchedulingLoopUpTo(MaxStarveTicks)

SpecStarve == InitStarve /\ [][NextStarve]_vars

(***************************************************************************)
(* The MemoryManager's pressure level as a function of its inputs.         *)
(***************************************************************************)
\* the pairs low_memory_threshold_, critical_memory_threshold_ tried; the
\* first is the constructor's
ThresholdInputs == {<<70, 90>>, <<70, 85>>, <<90, 70>>, <<50, 50>>}

InitPressure ==
    /\ \E t \in ThresholdInputs : InitAll(LiveSched, SchedNice, t[1], t[2])
    /\ resume_callee = "public"

\* /proc/meminfo is read and the pressure level computed from it
CalculateMemoryPressure ==
    /\ \E total \in {0, TotalMemory} : \E available \in 0..total :
         LET info == MemoryInfo(total, available)
         IN  /\ system_memory_info_' = info
             /\ memLast' = [NoCycle EXCEPT !.pressure =
                               calculateMemoryPressure(info, low_memory_threshold_,
                                                       critical_memory_threshold_)]
    /\ UNCHANGED <<obsVars, hostVars, snapshot, pmVars, current_algorithm_, optimization_strategy_,
                   schedState, schedAux, process_memory_info_, auto_optimization_enabled_,
                   low_memory_threshold_, critical_memory_threshold_, modeVars>>

NextPressure == CalculateMemoryPressure

SpecPressure == InitPressure /\ [][NextPressure]_vars

(***************************************************************************)
(* The MemoryManager's thread and its users.                               *)
(***************************************************************************)
\* MemTotal of the host of the monitoring scenarios, and the values
\* MemAvailable takes: with the constructor's thresholds the pressure is
\* Critical up to 40, High up to 80, Medium up to 120
HostMemory == 2 * TotalMemory

AvailableInputs == {0, 11, 20, 36, 60, 100, 200}

\* what may happen inside the ProcessManager calls of a cycle: the process
\* that gets SIGTERM exits or not, a callback throws or not
MemEnvs == {e \in Envs : ~e.gone /\ e.rl = "block"}

SetMemory(table, info, c) ==
    /\ process_memory_info_' = table
    /\ system_memory_info_' = info
    /\ memLast' = c

\* what one iteration of monitoringLoop does to the MemoryManager, the
\* ProcessManager and the host, MemAvailable being one of inputs
MonitoringLoopBody(inputs, envs) ==
    /\ \E available \in inputs, e \in envs :
         LET info == MemoryInfo(HostMemory, available)
             r == monitoringLoop(World, process_memory_info_, info, low_memory_threshold_,
                                 critical_memory_threshold_, auto_optimization_enabled_, e)
         IN  /\ SetWorld(r.w)
             /\ SetMemory(r.table, info, r.c)
    /\ last' = NoLast
    /\ UNCHANGED <<governor, resume_callee, current_algorithm_, optimization_strategy_,
                   schedState, schedAux, auto_optimization_enabled_, low_memory_threshold_,
                   critical_memory_threshold_, modeVars>>

\* one iteration of monitoringLoop
MonitoringLoop == MonitoringLoopBody(AvailableInputs, MemEnvs) /\ UNCHANGED obsVars

EnableAutoOptimization(enable) ==
    /\ auto_optimization_enabled_' = enable
    /\ UNCHANGED <<obsVars, hostVars, snapshot, pmVars, current_algorithm_, optimization_strategy_,
                   schedState, schedAux, process_memory_info_, low_memory_threshold_,
                   critical_memory_threshold_, system_memory_info_, memLast, modeVars>>

InitMem ==
    /\ InitAll(MemPids, [p \in MemPids |-> 0], 70, 90)
    /\ resume_callee = "public"

NextMem ==
    \/ MonitoringLoop
    \/ \E enable \in BOOLEAN : EnableAutoOptimization(enable)
    \/ Poll

SpecMem == InitMem /\ [][NextMem]_vars

(***************************************************************************)
(* The MemoryManager with its public optimisation calls: a monitoring      *)
(* thread, and callers of optimizeSystemMemory, optimizeProcessMemory and  *)
(* setOptimizationStrategy.                                                *)
(***************************************************************************)
OptimizeSystemMemory ==
    /\ \E e \in MemEnvs :
         LET r == optimizeSystemMemory(World, optimization_strategy_, process_memory_info_,
                                       system_memory_info_, e)
         IN  /\ SetWorld(r.w)
             /\ memLast' = r.c
    /\ last' = NoLast
    /\ UNCHANGED <<obsVars, governor, resume_callee, current_algorithm_, optimization_strategy_,
                   schedState, schedAux, process_memory_info_, auto_optimization_enabled_,
                   low_memory_threshold_, critical_memory_threshold_, system_memory_info_,
                   modeVars>>

OptimizeProcessMemory(p) ==
    /\ \E e \in MemEnvs :
         LET o == optimizeProcessMemory(World, p, e)
         IN  /\ SetWorld(o.w)
             /\ memLast' = [NoCycle EXCEPT !.handler = "optimize_process",
                                           !.calls = o.calls, !.ret = o.ret]
    /\ last' = NoLast
    /\ UNCHANGED <<obsVars, governor, resume_callee, current_algorithm_, optimization_strategy_,
                   schedState, schedAux, process_memory_info_, auto_optimization_enabled_,
                   low_memory_threshold_, critical_memory_threshold_, system_memory_info_,
                   modeVars>>

SetOptimizationStrategy(strategy) ==
    /\ optimization_strategy_' = strategy
    /\ UNCHANGED <<obsVars, hostVars, snapshot, pmVars, current_algorithm_, schedState, schedAux,
                   memVars, modeVars>>

\* the processes and the memory readings of the optimisation scenarios
LiveOpt == 1..5

InitMemOpt ==
    /\ InitAll(LiveOpt, [p \in MemPids |-> 0], 70, 90)
    /\ resume_callee = "public"

OptAvailableInputs == {0, 60, 100}

MonitoringLoopOpt ==
    /\ \E available \in OptAvailableInputs, e \in {x \in MemEnvs : x.dies} :
         LET info == MemoryInfo(HostMemory, available)
             r == monitoringLoop(World, process_memory_info_, info, low_memory_threshold_,
                                 critical_memory_threshold_, auto_optimization_enabled_, e)
         IN  /\ SetWorld(r.w)
             /\ SetMemory(r.table, info, r.c)
    /\ last' = NoLast
    /\ UNCHANGED <<obsVars, governor, resume_callee, current_algorithm_, optimization_strategy_,
                   schedState, schedAux, auto_optimization_enabled_, low_memory_threshold_,
                   critical_memory_threshold_, modeVars>>

NextMemOpt ==
    \/ MonitoringLoopOpt
    \/ OptimizeSystemMemory
    \/ \E p \in LiveOpt : OptimizeProcessMemory(p)
    \/ \E strategy \in MemoryStrategies : SetOptimizationStrategy(strategy)
    \/ \E enable \in BOOLEAN : EnableAutoOptimization(enable)
    \/ Poll

SpecMemOpt == InitMemOpt /\ [][NextMemOpt]_vars

(***************************************************************************)
(* The SystemMonitor's thread (monitorLoop), the thread that starts and    *)
(* stops it, threads that call its getters, and the processes of the host  *)
(* using the CPU.                                                          *)
(***************************************************************************)
\* polls in one run, and clock ticks a process uses in one run
MaxPolls == 3
MaxCpuTicks == 2

\* what the monitor scenarios leave alone
monRest == <<hostVars, pmVars, peerVars, modeVars, detectVars, boost, auxVars>>

\* a process runs for one clock tick
UseCpu(p) ==
    /\ p \in alive
    /\ hostCpu[p] < MaxCpuTicks
    /\ hostCpu' = [hostCpu EXCEPT ![p] = @ + 1]
    /\ hostTotal' = hostTotal + 1
    /\ UNCHANGED <<monRest, snapshot, processes_, monVars>>

\* a process other than init exits
MonDie(p) ==
    /\ p # 1
    /\ Die(p)

StartMonitoring ==
    /\ ~monitoring_active_
    /\ monPc = "none"
    /\ monitoring_active_' = TRUE
    /\ monPc' = "loop"
    /\ UNCHANGED <<monRest, snapshot, cpuVars, processes_, system_stats_, new_processes,
                   new_stats, polls, delivered, data_mutex_, got>>

\* stopMonitoring up to its join, which returns once the thread has left
\* monitorLoop
StopMonitoring ==
    /\ monitoring_active_
    /\ monitoring_active_' = FALSE
    /\ UNCHANGED <<monRest, snapshot, cpuVars, processes_, system_stats_, monPc,
                   new_processes, new_stats, polls, delivered, data_mutex_, got>>

\* while (monitoring_active_.load())
MonLoop ==
    /\ monPc = "loop"
    /\ monPc' = IF monitoring_active_ THEN "gather" ELSE "none"
    /\ UNCHANGED <<monRest, snapshot, cpuVars, processes_, system_stats_,
                   monitoring_active_, new_processes, new_stats, polls, delivered,
                   data_mutex_, got>>

\* getProcessList() and getSystemStats() into locals
MonGather ==
    /\ monPc = "gather"
    /\ polls < MaxPolls
    /\ polls' = polls + 1
    /\ new_processes' = getProcessList(alive, hostCpu, polls + 1)
    /\ new_stats' = getSystemStats(polls + 1, hostTotal)
    /\ monPc' = "lock"
    /\ UNCHANGED <<monRest, snapshot, cpuVars, processes_, system_stats_,
                   monitoring_active_, delivered, data_mutex_, got>>

\* lock_guard lock(data_mutex_); processes_ = std::move(new_processes)
MonStoreProcesses ==
    /\ monPc = "lock"
    /\ data_mutex_ = "free"
    /\ data_mutex_' = "monitor"
    /\ processes_' = new_processes
    /\ snapshot' = DOMAIN new_processes
    /\ monPc' = "store"
    /\ UNCHANGED <<monRest, cpuVars, system_stats_, monitoring_active_, new_processes,
                   new_stats, polls, delivered, got>>

\* system_stats_ = new_stats, and the end of the lock's scope
MonStoreStats ==
    /\ monPc = "store"
    /\ system_stats_' = new_stats
    /\ data_mutex_' = "free"
    /\ monPc' = "notify_process"
    /\ UNCHANGED <<monRest, snapshot, cpuVars, processes_, monitoring_active_,
                   new_processes, new_stats, polls, delivered, got>>

\* the time of the poll a process list was read in
PollOf(list) == IF DOMAIN list = {} THEN 0 ELSE list[CHOOSE p \in DOMAIN list : TRUE].start_time

\* notifyProcessUpdate(processes_); an exception of a callback is caught
\* after the notifications
MonNotifyProcess ==
    /\ monPc = "notify_process"
    /\ delivered' = Append(delivered, [kind |-> "process", poll |-> PollOf(processes_),
                                       active |-> monitoring_active_])
    /\ \E throws \in BOOLEAN : monPc' = IF throws THEN "sleep" ELSE "notify_stats"
    /\ UNCHANGED <<monRest, snapshot, cpuVars, processes_, system_stats_,
                   monitoring_active_, new_processes, new_stats, polls, data_mutex_, got>>

\* notifySystemStatsUpdate(system_stats_)
MonNotifyStats ==
    /\ monPc = "notify_stats"
    /\ delivered' = Append(delivered, [kind |-> "stats", poll |-> system_stats_.poll,
                                       active |-> monitoring_active_])
    /\ monPc' = "sleep"
    /\ UNCHANGED <<monRest, snapshot, cpuVars, processes_, system_stats_,
                   monitoring_active_, new_processes, new_stats, polls, data_mutex_, got>>

\* sleep_for(sleep_time)
MonSleep ==
    /\ monPc = "sleep"
    /\ monPc' = "loop"
    /\ UNCHANGED <<monRest, snapshot, cpuVars, processes_, system_stats_,
                   monitoring_active_, new_processes, new_stats, polls, delivered,
                   data_mutex_, got>>

\* the polls whose data has been stored
Completed == IF monPc \in {"lock", "store"} THEN polls - 1 ELSE polls

\* a getProcesses() that does not take data_mutex_
GetProcesses_Unlocked ==
    /\ got' = [kind |-> "processes", poll |-> PollOf(processes_), completed |-> Completed]
    /\ UNCHANGED <<monRest, snapshot, cpuVars, processes_, system_stats_,
                   monitoring_active_, monPc, new_processes, new_stats, polls, delivered,
                   data_mutex_>>

\* getProcesses() and getProcess(pid): a copy made with data_mutex_ held
GetProcesses ==
    /\ data_mutex_ = "free"
    /\ got' = [kind |-> "processes", poll |-> PollOf(processes_), completed |-> Completed]
    /\ UNCHANGED <<monRest, snapshot, cpuVars, processes_, system_stats_,
                   monitoring_active_, monPc, new_processes, new_stats, polls, delivered,
                   data_mutex_>>

\* getSystemStatistics()
GetSystemStatistics ==
    /\ data_mutex_ = "free"
    /\ got' = [kind |-> "stats", poll |-> system_stats_.poll, completed |-> Completed]
    /\ UNCHANGED <<monRest, snapshot, cpuVars, processes_, system_stats_,
                   monitoring_active_, monPc, new_processes, new_stats, polls, delivered,
                   data_mutex_>>

LiveMon == {1, 2}

InitMon ==
    /\ InitWith(LiveMon)
    /\ resume_callee = "public"

NextMon ==
    \/ StartMonitoring
    \/ StopMonitoring
    \/ MonLoop
    \/ MonGather
    \/ MonStoreProcesses
    \/ MonStoreStats
    \/ MonNotifyProcess
    \/ MonNotifyStats
    \/ MonSleep
    \/ GetProcesses
    \/ GetSystemStatistics
    \/ \E p \in LiveMon : MonDie(p)

SpecMon == InitMon /\ [][NextMon]_vars

\* the monitor and processes that use the CPU between its polls
NextCpu ==
    \/ StartMonitoring
    \/ StopMonitoring
    \/ MonLoop
    \/ MonGather
    \/ MonStoreProcesses
    \/ MonStoreStats
    \/ MonNotifyProcess
    \/ MonNotifyStats
    \/ MonSleep
    \/ \E p \in LiveMon : UseCpu(p)

SpecCpu == InitMon /\ [][NextCpu]_vars

(***************************************************************************)
(* ModeManager::quickBoostPerformance: the caller's thread (caller 1) and  *)
(* the detached thread that returns to the original mode (caller 2).       *)
(***************************************************************************)
BoostRest == <<hostVars, snapshot, pmVars, peerVars, modeVars, cpuVars, processes_, monVars,
               detectVars, auxVars>>

\* SystemMode original_mode = current_mode_
QuickBoostPerformance ==
    /\ boost.pc = "idle"
    /\ boost' = [pc |-> "call", original_mode |-> current_mode_]
    /\ UNCHANGED BoostRest

\* switchToMode(SystemMode::GAMING)
BoostSwitch ==
    /\ boost.pc = "call"
    /\ prevCall[1] = NoCall
    /\ SwitchToMode(1, "GAMING")

\* std::thread(...).detach(), and the return of quickBoostPerformance
BoostSchedule ==
    /\ boost.pc = "call"
    /\ pc[1] = "idle"
    /\ prevCall[1] # NoCall
    /\ boost' = [boost EXCEPT !.pc = "scheduled"]
    /\ UNCHANGED BoostRest

\* a detached thread that switches to PowerSaving instead of original_mode
BoostReturn_PowerSaving ==
    /\ boost.pc = "scheduled"
    /\ prevCall[2] = NoCall
    /\ SwitchToMode(2, "POWER_SAVING")

\* the detached thread after sleep_for(duration): switchToMode(original_mode)
BoostReturn ==
    /\ boost.pc = "scheduled"
    /\ prevCall[2] = NoCall
    /\ SwitchToMode(2, boost.original_mode)

\* the end of the detached thread
BoostDone ==
    /\ boost.pc = "scheduled"
    /\ pc[2] = "idle"
    /\ prevCall[2] # NoCall
    /\ boost' = [boost EXCEPT !.pc = "done"]
    /\ UNCHANGED BoostRest

NextBoost ==
    \/ QuickBoostPerformance
    \/ BoostSwitch
    \/ BoostSchedule
    \/ BoostReturn
    \/ BoostDone
    \/ \E t \in Callers : SwitchCompare(t)
    \/ \E t \in Callers : SwitchBackup(t)
    \/ \E t \in Callers : SwitchApply(t)
    \/ \E t \in Callers : SwitchPriorities(t)
    \/ \E t \in Callers : SwitchGovernor(t)
    \/ \E t \in Callers : SwitchCommit(t)
    \/ \E t \in Callers : SwitchRestore(t)
    \/ \E t \in Callers : SwitchReturn(t)

SpecBoost == InitMode /\ [][NextBoost]_vars

\* every thread that can take a step takes one
SpecBoostFair == SpecBoost /\ WF_vars(NextBoost)

(***************************************************************************)
(* The ModeManager's life: calls of switchToMode by one caller, then its   *)
(* destructor.                                                             *)
(***************************************************************************)
\* ~ModeManager: the auto-mode thread is joined, then restoreSystemState().
\* An exception that leaves restoreSystemState leaves the destructor.
Shutdown ==
    /\ AllIdle
    /\ ~destroyed
    /\ destroyed' = TRUE
    /\ IF ~state_backup_.is_valid
       THEN UNCHANGED <<hostVars, snapshot, managed_processes_, pmStuck, current_algorithm_,
                        schedState, state_backup_>>
       ELSE LET calls == RestoreCalls(state_backup_, snapshot)
            IN  \E ok \in BOOLEAN, k \in 0..Len(calls), rl \in {"block", "throw"} :
                  LET r == RunCalls(World, calls, 1, k, resume_callee, rl)
                  IN  /\ current_algorithm_' = state_backup_.scheduler_algorithm
                      /\ SetSched(setSchedulingAlgorithm(Sched,
                                                         state_backup_.scheduler_algorithm))
                      /\ governor' = IF ok /\ state_backup_.cpu_governor # ""
                                     THEN state_backup_.cpu_governor ELSE governor
                      /\ SetWorld(r.w)
                      /\ state_backup_' = IF r.ret = "ok"
                                          THEN [state_backup_ EXCEPT !.is_valid = FALSE]
                                          ELSE state_backup_
    /\ UNCHANGED <<resume_callee, last, optimization_strategy_, schedAux, memVars,
                   current_mode_, previous_mode_, mode_switching_active_, mode_mutex_, pc,
                   target, pre, ret, govFailed, prevCall, switches, cpuVars, processes_,
                   monVars, detectVars, boost, thrVars, invoking, lateVars>>

NextShutdown ==
    \/ ~destroyed /\ SwitchStep(1)
    \/ \E p \in Pids : ~destroyed /\ Manage(p)
    \/ \E p \in Pids : ~destroyed /\ Exits(p)
    \/ Shutdown

SpecShutdown == InitMode /\ [][NextShutdown]_vars

(***************************************************************************)
(* The Scheduler's thread: startScheduler, stopScheduler and the places of *)
(* schedulingLoop, with one controlling thread, one user's thread that     *)
(* changes the algorithm, and the users of the ProcessManager.             *)
(*   head -> reconcile -> update -> select -> sleep -> head, head -> done  *)
(* A thread at "blocked" waits for processes_mutex_, which is never        *)
(* released.                                                               *)
(***************************************************************************)
\* iterations of schedulingLoop in one run of the thread scenarios
MaxThreadTicks == 2

thrRest == <<cpuVars, processes_, monVars, detectVars, boost, destroyed, invoking, lateVars>>
thrOther == <<hostVars, snapshot, pmVars, peerVars, modeVars>>

StartScheduler ==
    /\ stopPc = "idle"
    /\ IF scheduler_active_
       THEN /\ started' = "false"
            /\ UNCHANGED <<scheduler_active_, scheduler_thread_, threads>>
       ELSE /\ scheduler_active_' = TRUE
            /\ scheduler_thread_' = "head"
            /\ threads' = threads + 1
            /\ started' = "true"
    /\ UNCHANGED <<stopPc, scheduler_mutex_, callerPc, thrRest, thrOther>>

\* stopScheduler up to its join
StopScheduler ==
    /\ stopPc = "idle"
    /\ scheduler_active_
    /\ scheduler_active_' = FALSE
    /\ stopPc' = "join"
    /\ UNCHANGED <<scheduler_thread_, threads, scheduler_mutex_, callerPc, started, thrRest,
                   thrOther>>

\* the join of stopScheduler returns
StopJoin ==
    /\ stopPc = "join"
    /\ scheduler_thread_ = "done"
    /\ scheduler_thread_' = "none"
    /\ threads' = threads - 1
    /\ stopPc' = "idle"
    /\ UNCHANGED <<scheduler_active_, scheduler_mutex_, callerPc, started, thrRest, thrOther>>

ThreadAt(from, to) ==
    /\ scheduler_thread_ = from
    /\ scheduler_thread_' = to
    /\ UNCHANGED <<scheduler_active_, stopPc, threads, scheduler_mutex_, callerPc, started,
                   thrRest>>

\* while (scheduler_active_.load()); the thread sleeps at the head until it
\* is stopped once it has run MaxThreadTicks iterations
SchedLoopHead ==
    /\ ticks < MaxThreadTicks \/ ~scheduler_active_
    /\ ThreadAt("head", IF scheduler_active_ THEN "reconcile" ELSE "done")
    /\ UNCHANGED thrOther

\* new pids are added, dead ones erased: the table is searched and erased
\* from with no mutex held; addProcess locks scheduler_mutex_ for a new pid
SchedReconcile ==
    /\ snapshot \subseteq scheduled_processes_ \/ scheduler_mutex_ = "free"
    /\ ThreadAt("reconcile", "update")
    /\ UNCHANGED thrOther

\* updateProcessState of every entry and boostStarvingProcesses, with no
\* mutex held
SchedUpdate ==
    /\ ThreadAt("update", "select")
    /\ UNCHANGED thrOther

\* selectNextProcess locks scheduler_mutex_; then setProcessPriority, which
\* waits for processes_mutex_.  The iteration's effect is taken here.
SchedSelect ==
    /\ scheduler_thread_ = "select"
    /\ scheduler_mutex_ = "free"
    /\ SchedulingLoopBody(MaxThreadTicks)
    /\ ThreadAt("select", IF pmStuck /\ picked' # NoPid /\ canModifyProcess(World, picked')
                          THEN "blocked" ELSE "sleep")

SchedSleep ==
    /\ ThreadAt("sleep", "head")
    /\ UNCHANGED thrOther

\* a user's thread enters setSchedulingAlgorithm and locks scheduler_mutex_
SetAlgorithmLock ==
    /\ callerPc = "idle"
    /\ scheduler_mutex_ = "free"
    /\ callerPc' = "set"
    /\ scheduler_mutex_' = "caller"
    /\ UNCHANGED <<scheduler_active_, scheduler_thread_, stopPc, threads, started, thrRest,
                   thrOther>>

\* it rebuilds the queues and returns
SetAlgorithmRun(a) ==
    /\ callerPc = "set"
    /\ SetSchedulingAlgorithmBody(a)
    /\ callerPc' = "idle"
    /\ scheduler_mutex_' = "free"
    /\ UNCHANGED <<scheduler_active_, scheduler_thread_, stopPc, threads, started, thrRest>>

\* the steps of the Scheduler's thread
SchedThread ==
    \/ SchedLoopHead
    \/ SchedReconcile
    \/ SchedUpdate
    \/ SchedSelect
    \/ SchedSleep

\* the algorithms a user's thread asks for
ThreadAlgorithms == {"ROUND_ROBIN", "PRIORITY_BASED"}

NextThread ==
    \/ StartScheduler
    \/ StopScheduler
    \/ StopJoin
    \/ SchedThread
    \/ SetAlgorithmLock
    \/ \E a \in ThreadAlgorithms : SetAlgorithmRun(a)
    \/ AddToManaged(2, FALSE)
    \/ PauseProcess(2)
    \/ RestoreAllProcesses

SpecThread == InitSched /\ [][NextThread]_vars

\* SchedThread is enabled, as a state predicate
ThreadCanStep ==
    \/ scheduler_thread_ = "head" /\ (ticks < MaxThreadTicks \/ ~scheduler_active_)
    \/ scheduler_thread_ = "reconcile"
          /\ (snapshot \subseteq scheduled_processes_ \/ scheduler_mutex_ = "free")
    \/ scheduler_thread_ \in {"update", "sleep"}
    \/ scheduler_thread_ = "select" /\ scheduler_mutex_ = "free"

\* a step of SchedThread: the only steps that move a running thread
ThreadStep ==
    scheduler_thread_ \notin {"none", "done"} /\ scheduler_thread_' # scheduler_thread_

\* the Scheduler's thread takes a step if it can again and again (it gets the
\* mutex in the end), a join returns once the thread has exited, and the
\* user's thread leaves setSchedulingAlgorithm
SpecThreadFair ==
    /\ SpecThread
    /\ (<>[]~ThreadCanStep) \/ ([]<><<ThreadStep>>_vars)
    /\ WF_vars(StopJoin)
    /\ WF_vars(\E a \in ThreadAlgorithms : SetAlgorithmRun(a))

(***************************************************************************)
(* quickBoostPerformance and then the destructor: the detached thread      *)
(* holds `this` and is neither joined nor told to stop by ~ModeManager.    *)
(***************************************************************************)
\* the detached thread wakes after ~ModeManager and its access to the
\* destroyed object faults: the process ends
BoostFault ==
    /\ destroyed
    /\ boost.pc = "scheduled"
    /\ prevCall[2] = NoCall
    /\ pc[2] = "idle"
    /\ boost' = [boost EXCEPT !.pc = "fault"]
    /\ UNCHANGED BoostRest

\* the steps of switchToMode on the threads of quickBoostPerformance
BoostSwitchStep(t) ==
    \/ SwitchCompare(t)
    \/ SwitchBackup(t)
    \/ SwitchApply(t)
    \/ SwitchPriorities(t)
    \/ SwitchGovernor(t)
    \/ SwitchCommit(t)
    \/ SwitchRestore(t)
    \/ SwitchReturn(t)

\* the application calls quickBoostPerformance once and destroys the
\* ModeManager after the call has returned; the detached thread that wakes
\* later uses the destroyed object, which the build may let run as if the
\* object were alive (BoostReturn) or stop with a fault (BoostFault)
NextBoostShutdown ==
    \/ ~destroyed /\ QuickBoostPerformance
    \/ BoostSwitch
    \/ BoostSchedule
    \/ BoostReturn
    \/ BoostFault
    \/ BoostDone
    \/ \E t \in Callers : boost.pc # "fault" /\ BoostSwitchStep(t)
    \/ \E p \in GamePids : ~destroyed /\ Manage(p)
    \/ boost.pc # "call" /\ Shutdown

SpecBoostShutdown == InitMode /\ [][NextBoostShutdown]_vars

(***************************************************************************)
(* The Scheduler's thread running without end over a fixed set of         *)
(* processes.                                                              *)
(***************************************************************************)
\* schedule_count is compared with (level + 1) * 3 for level < max_queue_levels_
\* only: every value above max_queue_levels_ * 3 answers those tests alike and
\* is kept as this one
CountCap == max_queue_levels_ * 3 + 1

CapCounts(s) ==
    [s EXCEPT !.heap = [p \in DOMAIN @ |->
                           [@[p] EXCEPT !.schedule_count = Min2(@, CountCap)]]]

\* the processes of the scenario: none is registered as real-time
LiveForever == {2, 3}

\* the nice values a process of the scenario starts with
ForeverNiceInputs == {-10, 0, 19}

InitForever ==
    /\ \E n2, n3 \in ForeverNiceInputs :
          InitNice(LiveForever, [p \in Pids |-> IF p = 2 THEN n2 ELSE IF p = 3 THEN n3 ELSE 0])
    /\ resume_callee = "public"

\* one iteration of schedulingLoop in which the subscriber's callback returns,
\* up to its sleep_for; ticks is 1 while the thread sleeps
SchedulingLoopForever ==
    /\ ticks = 0
    /\ LET r == schedulingLoop(Sched, World, realtime_processes_, current_algorithm_, Calm)
       IN  /\ SetSched(CapCounts(r.s))
           /\ SetWorld(r.w)
           /\ picked' = r.next
    /\ ticks' = 1
    /\ last' = NoLast
    /\ UNCHANGED <<governor, resume_callee, current_algorithm_, optimization_strategy_,
                   realtime_processes_, memVars, modeVars, obsVars>>

\* the end of sleep_for(50 ms): the thread goes to its next iteration
SchedulingLoopWake ==
    /\ ticks = 1
    /\ ticks' = 0
    /\ UNCHANGED <<hostVars, snapshot, pmVars, current_algorithm_, optimization_strategy_,
                   schedState, realtime_processes_, picked, memVars, modeVars, obsVars>>

\* the application chooses the algorithm before the thread's first iteration
NextForever ==
    \/ \E a \in Algorithms :
          scheduled_processes_ = {} /\ current_algorithm_ = "PRIORITY_BASED"
             /\ SetSchedulingAlgorithm(a)
    \/ SchedulingLoopForever
    \/ SchedulingLoopWake

SpecForever == InitForever /\ [][NextForever]_vars

\* the thread goes on: it wakes from every sleep and, awake, takes its
\* iteration
SpecForeverFair ==
    /\ SpecForever
    /\ WF_vars(SchedulingLoopWake)
    /\ (<>[](ticks # 0)) \/ ([]<><<SchedulingLoopForever>>_vars)

(***************************************************************************)
(* The Scheduler's time slices: admission, the adaptive step of            *)
(* schedulingLoop and the removal of dead processes.                       *)
(***************************************************************************)
min_time_slice_ == 10
max_time_slice_ == 500

sliceRest == <<cpuVars, processes_, monVars, detectVars, boost, destroyed, thrVars, invoking,
               poolSched>>

\* the switch of calculateTimeSlice
ClassTimeSlice(class) ==
    CASE class = "REAL_TIME" -> 20
      [] class = "INTERACTIVE" -> 50
      [] class = "BATCH" -> 200
      [] class = "SYSTEM" -> 100
      [] OTHER -> 500

\* std::clamp(v, lo, hi)
StdClamp(v, lo, hi) == IF v < lo THEN lo ELSE IF hi < v THEN hi ELSE v

calculateTimeSlice(class) ==
    StdClamp(ClassTimeSlice(class), min_time_slice_, max_time_slice_)

\* the new time_slice of one process without std::max
Scaled_NoFloor(ts) == (ts * 80) \div 100

\* std::max(min_time_slice_, time_slice * 80 / 100), in whole milliseconds
Scaled(ts) ==
    IF (ts * 80) \div 100 < min_time_slice_ THEN min_time_slice_ ELSE (ts * 80) \div 100

\* adaptToSystemLoad, load being cpu_usage_total of getSystemStatistics()
adaptToSystemLoad(slices, objects, load) ==
    IF load > 80
    THEN [p \in DOMAIN slices |->
            IF objects[p].process_class # "REAL_TIME" THEN Scaled(slices[p]) ELSE slices[p]]
    ELSE slices

\* cpu_usage_total as schedulingLoop may read it
LoadInputs == {50, 90}

\* addProcess(pid) of a pid of the snapshot.  classifyProcess asks the
\* SystemMonitor for the process again: the monitor's thread may have
\* published a poll in between
AdmitProcess(p) ==
    /\ p \in snapshot
    /\ p \notin scheduled_processes_
    /\ \E polled \in BOOLEAN :
         LET seen == IF polled THEN alive ELSE snapshot
             class == classifyProcess(p, seen)
             s == addProcess(Sched, p, World, current_algorithm_)
         IN  /\ SetSched([s EXCEPT !.heap[p].process_class = class])
             /\ time_slice' = Put(time_slice, p, calculateTimeSlice(class))
             /\ snapshot' = seen
             /\ processes_' = IF polled THEN getProcessList(alive, hostCpu, polls)
                              ELSE processes_
    /\ UNCHANGED <<cpuVars, monVars, detectVars, boost, destroyed, thrVars, invoking, poolSched,
                   hostVars, pmVars, current_algorithm_, optimization_strategy_, schedAux,
                   memVars, modeVars>>

\* "Adaptive scheduling adjustments" of schedulingLoop
AdaptToSystemLoad ==
    /\ \E load \in LoadInputs : time_slice' = adaptToSystemLoad(time_slice, heap, load)
    /\ UNCHANGED <<sliceRest, hostVars, snapshot, pmVars, peerVars, modeVars>>

\* "Remove dead processes" of schedulingLoop
RemoveDeadProcesses ==
    /\ LET s == RemoveDead(Sched, snapshot)
       IN  /\ SetSched(s)
           /\ time_slice' = [p \in s.table |-> time_slice[p]]
    /\ UNCHANGED <<sliceRest, hostVars, snapshot, pmVars, current_algorithm_,
                   optimization_strategy_, schedAux, memVars, modeVars>>

NextSlice ==
    \/ \E p \in LiveSched : AdmitProcess(p)
    \/ AdaptToSystemLoad
    \/ RemoveDeadProcesses
    \/ \E p \in UserPids : Die(p)
    \/ Poll

SpecSlice == InitSched /\ [][NextSlice]_vars

(***************************************************************************)
(* The Scheduler of Scheduler.cpp: a worker thread that enqueues one task  *)
(* per cycle on a ThreadPool.                                              *)
(***************************************************************************)
\* cycles of scheduleWorker in one run
MaxCycles == 3

\* calls of stopScheduling in one run
MaxStops == 2

poolRest == <<hostVars, snapshot, pmVars, peerVars, modeVars, cpuVars, processes_, monVars,
              detectVars, boost, destroyed, thrVars, invoking, time_slice>>

PoolWorkers == 1..NumPoolWorkers

\* startScheduling: under mtx, nothing if running, else running = true and a
\* thread running scheduleWorker is added to workerThreads
StartScheduling ==
    /\ poolSched.mtx = "free"
    /\ poolSched' = IF poolSched.running THEN poolSched
                    ELSE [poolSched EXCEPT !.running = TRUE, !.worker = "test"]
    /\ UNCHANGED poolRest

\* stopScheduling up to the joins of ThreadPool::stop: mtx is taken, running =
\* false, stop_flag = true under queue_mtx, notify_all
StopScheduling ==
    /\ poolSched.mtx = "free"
    /\ poolSched.stops < MaxStops
    /\ poolSched' = [poolSched EXCEPT !.mtx = "stop", !.running = FALSE,
                                      !.stop_flag = TRUE, !.stopPc = "pool_join"]
    /\ UNCHANGED poolRest

\* ThreadPool::stop joins every worker of the pool; a thread that has ended
\* is joined at once.  stop_flag stays set and workers is not refilled.
PoolStopJoin ==
    /\ poolSched.stopPc = "pool_join"
    /\ \A w \in PoolWorkers : poolSched.workers[w].pc = "exited"
    /\ poolSched' = [poolSched EXCEPT !.stopPc = "worker_join"]
    /\ UNCHANGED poolRest

\* stopScheduling joins workerThreads and clears it; mtx is released
StopSchedulingJoin ==
    /\ poolSched.stopPc = "worker_join"
    /\ poolSched.worker \in {"none", "exited"}
    /\ poolSched' = [poolSched EXCEPT !.worker = "none", !.stopPc = "idle",
                                      !.mtx = "free", !.stops = @ + 1]
    /\ UNCHANGED poolRest

\* scheduleWorker: while (running)
ScheduleWorkerTest ==
    /\ poolSched.worker = "test"
    /\ poolSched.running => poolSched.cycles < MaxCycles
    /\ poolSched' = [poolSched EXCEPT !.worker = IF poolSched.running THEN "enqueue"
                                                 ELSE "exited"]
    /\ UNCHANGED poolRest

\* scheduleProcesses: threadPool.enqueue(task); ThreadPool::enqueue pushes the
\* task under queue_mtx and notifies one worker
ScheduleProcesses ==
    /\ poolSched.worker = "enqueue"
    /\ poolSched' = [poolSched EXCEPT !.tasks = Append(@, poolSched.cycles + 1),
                                      !.cycles = @ + 1, !.worker = "sleep"]
    /\ UNCHANGED poolRest

\* the end of sleep_for(time_quantum_ms)
ScheduleWorkerSleep ==
    /\ poolSched.worker = "sleep"
    /\ poolSched' = [poolSched EXCEPT !.worker = "test"]
    /\ UNCHANGED poolRest

\* a worker of the pool leaves cv.wait: it returns if stop_flag is set and
\* the queue is empty, else it takes the front task
PoolTake(w) ==
    /\ poolSched.workers[w].pc = "wait"
    /\ poolSched.stop_flag \/ poolSched.tasks # <<>>
    /\ poolSched' = IF poolSched.stop_flag /\ poolSched.tasks = <<>>
                    THEN [poolSched EXCEPT !.workers[w].pc = "exited"]
                    ELSE [poolSched EXCEPT !.workers[w] = [pc |-> "run",
                                                           task |-> Head(poolSched.tasks)],
                                           !.tasks = Tail(@)]
    /\ UNCHANGED poolRest

\* task(): applyScheduling and the IPC message of one cycle
PoolRun(w) ==
    /\ poolSched.workers[w].pc = "run"
    /\ poolSched' = [poolSched EXCEPT !.ran = Append(@, poolSched.workers[w].task),
                                      !.workers[w] = [pc |-> "wait", task |-> 0]]
    /\ UNCHANGED poolRest

ScheduleWorker == ScheduleWorkerTest \/ ScheduleProcesses \/ ScheduleWorkerSleep

NextPool ==
    \/ StartScheduling
    \/ StopScheduling
    \/ PoolStopJoin
    \/ StopSchedulingJoin
    \/ ScheduleWorkerTest
    \/ ScheduleProcesses
    \/ ScheduleWorkerSleep
    \/ \E w \in PoolWorkers : PoolTake(w)
    \/ \E w \in PoolWorkers : PoolRun(w)

SpecPool == InitSched /\ [][NextPool]_vars

\* every thread that can take a step takes one
SpecPoolFair ==
    /\ SpecPool
    /\ WF_vars(ScheduleWorker)
    /\ WF_vars(PoolStopJoin)
    /\ WF_vars(StopSchedulingJoin)
    /\ \A w \in PoolWorkers : WF_vars(PoolTake(w) \/ PoolRun(w))

(***************************************************************************)
(* Subscriber callbacks: the place where a component invokes one, and the  *)
(* mutexes the invoking thread holds there.                                *)
(***************************************************************************)
cbRest == <<cpuVars, processes_, monVars, detectVars, boost, destroyed, thrVars, lateVars>>

\* the mutex that guards the component a callback belongs to
MutexOf(callback) ==
    IF callback = "process_action" THEN "processes_mutex_" ELSE "memory_info_mutex_"

Invoke(callback, held) ==
    invoking' = [callback |-> callback, held |-> held, blocked |-> FALSE]

\* the pids a user of the ProcessManager terminates
CallbackPids == {2, 3}

\* ProcessManager::terminateProcess up to its notifyProcessAction call: the
\* lock_guard of processes_mutex_ taken before the kill is still alive
TerminateNotify(p) ==
    /\ invoking = NoCallback
    /\ ~pmStuck
    /\ canModifyProcess(World, p)
    /\ \E e \in {x \in TermEnvs : ~x.cb} :
         DidBody("terminate", p, terminateProcess(World, p, e))
    /\ Invoke("process_action", {"processes_mutex_"})
    /\ UNCHANGED cbRest

\* MemoryManager::monitoringLoop with a pressure above LOW: the lock_guards
\* of memory_info_mutex_ are gone when notifyMemoryPressure is called.  The
\* iteration's effect is taken here.
PressureNotify ==
    /\ invoking = NoCallback
    /\ MonitoringLoopBody(OptAvailableInputs, {x \in MemEnvs : x.dies /\ ~x.cb})
    /\ memLast'.pressure # "LOW"
    /\ Invoke("memory_pressure", {})
    /\ UNCHANGED cbRest

\* the callback calls a method of the component that invoked it, which locks
\* the component's mutex: when the invoking thread holds it the second lock
\* blocks for ever or throws std::system_error, which leaves the operation
CallbackReenters ==
    /\ invoking.callback # "none"
    /\ ~invoking.blocked
    /\ IF MutexOf(invoking.callback) \in invoking.held
       THEN \E rl \in {"block", "throw"} :
              IF rl = "block"
              THEN /\ invoking' = [invoking EXCEPT !.blocked = TRUE]
                   /\ pmStuck' = TRUE
              ELSE /\ invoking' = NoCallback
                   /\ UNCHANGED pmStuck
       ELSE /\ invoking' = NoCallback
            /\ UNCHANGED pmStuck
    /\ UNCHANGED <<cbRest, hostVars, snapshot, managed_processes_, resume_callee, last,
                   peerVars, modeVars>>

\* the callback returns, and then the operation that invoked it
CallbackReturns ==
    /\ invoking.callback # "none"
    /\ ~invoking.blocked
    /\ invoking' = NoCallback
    /\ UNCHANGED <<cbRest, hostVars, snapshot, pmVars, peerVars, modeVars>>

NextCallback ==
    \/ \E p \in CallbackPids : TerminateNotify(p)
    \/ PressureNotify
    \/ CallbackReenters
    \/ CallbackReturns
    \/ Poll

SpecCallback == InitMemOpt /\ [][NextCallback]_vars

(***************************************************************************)
(* detectOptimalMode as a function of what it reads.                       *)
(***************************************************************************)
InitDetect == \E r \in Readings : InitReading(LiveSched, SchedNice, 70, 90, r)

DetectOptimalMode ==
    /\ detected' = detectOptimalMode(reading)
    /\ UNCHANGED <<hostVars, snapshot, pmVars, peerVars, modeVars, cpuVars, processes_,
                   monVars, reading, boost, auxVars>>

NextDetect == DetectOptimalMode

SpecDetect == InitDetect /\ [][NextDetect]_vars

(***************************************************************************)
(* Claims about the ProcessManager, checked under SpecPM.                  *)
(***************************************************************************)
Calls == {last.calls[i] : i \in DOMAIN last.calls}

Entry(p) == managed_processes_[p]

\* critical by name, or marked critical when it was added to the managed table
IsCriticalPid(p) ==
    \/ isProcessCritical(ProcName(p))
    \/ p \in DOMAIN managed_processes_ /\ Entry(p).is_critical

\* C1: no critical ManagedProcess is ever Suspended or Terminated, and no stop
\* or terminate signal or priority change is sent to a critical pid
C1_CriticalNeverTouched ==
    /\ \A p \in DOMAIN managed_processes_ :
          IsCriticalPid(p) => Entry(p).current_state \notin {"SUSPENDED", "TERMINATED"}
    /\ \A c \in Calls :
          (c.kind = "setpriority" \/ c.sig \in {"SIGSTOP", "SIGTERM", "SIGKILL"})
             => ~IsCriticalPid(c.pid)

GuardedOps == {"terminate", "pause", "resume", "set_nice"}

\* C7: terminate, pause, resume and set_nice on a pid that is critical, absent
\* from the snapshot or fails the permission probe return failure, make no host
\* call and leave the managed table unchanged (no other call being stuck inside
\* the ProcessManager)
C7_GuardFailureIsInert ==
    [][(~pmStuck /\ last'.op \in GuardedOps /\ ~last'.guard)
          => /\ last'.ret = "false"
             /\ last'.calls = <<>>
             /\ managed_processes_' = managed_processes_]_vars

\* the last call was pause(p) on a managed, non-critical, permitted, Running p
\* and it returned
PausedRunning(l, table, p) ==
    /\ l.op = "pause" /\ l.pid = p /\ l.guard /\ l.state0 = "RUNNING"
    /\ l.ret \in {"true", "false"}
    /\ p \in DOMAIN table /\ ~table[p].is_critical

\* C8: pause(p) marks a managed, non-critical, permitted, Running p Suspended,
\* and resume(p) right after it returns with p Running and the nice p had
\* before the pause (a throwing subscriber callback apart)
C8_PauseResumeRoundTrip ==
    [][\A p \in Pids :
        /\ PausedRunning(last', managed_processes_', p) => managed_processes_'[p].current_state = "SUSPENDED"
        /\ (PausedRunning(last, managed_processes_, p) /\ last'.op = "resume" /\ last'.pid = p
              /\ ~pmStuck /\ last'.ret # "raised")
             => /\ last'.ret \in {"true", "false"}
                /\ p \in DOMAIN managed_processes_'
                /\ managed_processes_'[p].current_state = "RUNNING"
                /\ managed_processes_'[p].current_priority = Entry(p).current_priority
                /\ p \in alive' => hostNice'[p] = last.nice0]_vars

\* C9: terminate sends the graceful signal first and force-kills a process that
\* is still alive after the grace period; it never returns success for a pid
\* that is still alive
C9_TerminateKills ==
    (last.op \in {"terminate", "smart_terminate"} /\ last.guard)
       => /\ last.calls # <<>> /\ last.calls[1].sig = "SIGTERM"
          /\ last.ret = "true" => last.pid \notin alive

\* C10: restore_all returns, and then every live Suspended ManagedProcess has
\* been sent SIGCONT and every live one whose nice differs from its original
\* nice has had the original re-applied (no other call being stuck inside the
\* ProcessManager)
C10_RestoreAllReturns ==
    [][(~pmStuck /\ last'.op = "restore_all")
         => /\ last'.ret = "returned"
            /\ \A p \in DOMAIN managed_processes_ \cap alive :
                  /\ Entry(p).current_state = "SUSPENDED"
                        => HostCall("kill", p, "SIGCONT") \in {last'.calls[i] : i \in DOMAIN last'.calls}
                  /\ Entry(p).current_priority # Entry(p).original_priority
                        => HostCall("setpriority", p, Clamp(Entry(p).original_priority))
                              \in {last'.calls[i] : i \in DOMAIN last'.calls}]_vars

(***************************************************************************)
(* Claims about ModeManager::switchToMode.  SpecMode has callers on        *)
(* several threads, SpecModeSeq one caller.                                *)
(***************************************************************************)
\* places between mode_switching_active_.store(true) and the store(false)
InFlight == {"backup", "apply", "prio", "gov", "commit", "catch", "hung"}

\* C2: at most one call of switch is ever between setting and clearing the
\* switching flag
C2_OneSwitchInFlight ==
    Cardinality({t \in Callers : pc[t] \in InFlight}) <= 1

\* C3: when switch(m) returns success, active_mode = m, previous_mode is the
\* mode that was active before the call, the Scheduler's algorithm is m's and
\* the MemoryController's strategy is m's
C3_SuccessPostcondition ==
    [][\A t \in Callers :
         (pc[t] # "done" /\ pc'[t] = "done" /\ ret'[t] = "true")
            => /\ current_mode_' = target[t]
               /\ previous_mode_' = pre[t].mode
               /\ current_algorithm_' = ModeConfig(target[t]).scheduling_algorithm
               /\ optimization_strategy_' = ModeConfig(target[t]).memory_strategy]_vars

\* C4: when switch(m) returns failure, active_mode is what it was before the
\* call, every live pid has the nice it had before the call, and every pid
\* that ran before the call runs or is dead
C4_FailureRestores ==
    \A t \in Callers :
      (pc[t] = "done" /\ ret[t] = "false")
         => /\ current_mode_ = pre[t].mode
            /\ \A p \in alive : hostNice[p] = pre[t].nice[p]
            /\ \A p \in pre[t].running : p \notin alive \/ p \notin hostStopped

\* C5: when the CPU-governor write is refused while the target configuration
\* is applied, switch returns failure and active_mode is what it was before
\* the call
C5_RefusedGovernorFails ==
    \A t \in Callers :
      (pc[t] = "done" /\ govFailed[t])
         => ret[t] = "false" /\ current_mode_ = pre[t].mode

\* the call of caller t that has just ended left the modes, the peers and the
\* managed processes as they were
Untouched(t) ==
    /\ current_mode_ = pre[t].mode
    /\ previous_mode_ = pre[t].previous
    /\ current_algorithm_ = pre[t].algorithm
    /\ optimization_strategy_ = pre[t].strategy
    /\ managed_processes_ = pre[t].managed

\* caller t's call has ended and asked for the mode its previous call asked for
SecondOf(t) == pc[t] = "done" /\ prevCall[t].target = target[t]

\* C6: switch(m) right after a switch(m) that returned success returns failure
\* and leaves active_mode, previous_mode, the Scheduler algorithm, the
\* MemoryController strategy and every managed process unchanged
C6_RepeatAfterSuccessFails ==
    \A t \in Callers :
      (SecondOf(t) /\ prevCall[t].ret = "true") => (ret[t] = "false" /\ Untouched(t))

\* C6, reached: a second switch(m) has ended after a first that succeeded
C6_RepeatAfterSuccess ==
    \E t \in Callers : SecondOf(t) /\ prevCall[t].ret = "true" /\ ret[t] = "false"

\* C6 as stated: switch(m) right after switch(m) returns failure and leaves
\* the state unchanged, whatever the first call returned
C6_RepeatFails ==
    \A t \in Callers :
      (SecondOf(t) /\ prevCall[t].ret \in {"true", "false"})
         => (ret[t] = "false" /\ Untouched(t))
(***************************************************************************)
(* Claims about the Scheduler, checked under SpecSched and its variants.   *)
(***************************************************************************)
\* the step is an iteration of schedulingLoop
IsTick == ticks' = ticks + 1

\* the pids in the Scheduler's queues and current_running reference
Queued(rr, mlq) == Range(rr) \cup UNION {Range(mlq[l]) : l \in Levels}

\* C11: a pid that is not in the Observer's live set is, after one cycle of
\* the Scheduler, in none of its tables: not in the scheduled table, not in
\* the RoundRobin deque, not in a multilevel queue, not current_running
C11_DeadPidDropped ==
    [][IsTick =>
         \A p \in Pids \ snapshot :
            /\ p \notin scheduled_processes_'
            /\ p \notin Queued(round_robin_queue_', multilevel_queues_')
            /\ current_running_process_' # p]_vars

\* the live scheduled processes after the step
LiveScheduled == {p \in scheduled_processes_' : isProcessRunning(snapshot', p)}

\* no registered real-time process is live and scheduled
NoRealtime == Range(realtime_processes_) \cap LiveScheduled = {}

\* C12: under PriorityBased with no real-time process, select_next returns
\* the live scheduled process whose dynamic_priority field (recomputed in this
\* iteration, then raised by the starvation boost) is maximal, the smallest
\* pid among equals
C12_PriorityArgmax ==
    [][(IsTick /\ current_algorithm_ = "PRIORITY_BASED" /\ NoRealtime /\ picked' # NoPid)
          => /\ picked' \in LiveScheduled
             /\ \A q \in LiveScheduled :
                  \/ heap'[picked'].dynamic_priority > heap'[q].dynamic_priority
                  \/ /\ heap'[picked'].dynamic_priority = heap'[q].dynamic_priority
                     /\ picked' <= q]_vars

\* C13: under RoundRobin an entry of the deque whose pid is gone from the
\* Observer's live set is skipped: select_next never returns it
C13_DeadEntrySkipped ==
    [][(IsTick /\ current_algorithm_ = "ROUND_ROBIN" /\ NoRealtime /\ picked' # NoPid)
          => isProcessRunning(snapshot, picked')]_vars

\* the multilevel queues selectNextProcess sees in this iteration: the
\* processes that are new in the snapshot have entered queue 0
SchedSeen == AddAll(Sched, IterationOrder(snapshot), World, current_algorithm_)

QueuesSeen == SchedSeen.mlq

NonEmptyLevels == {l \in Levels : QueuesSeen[l] # <<>>}

LowestLevel == CHOOSE l \in NonEmptyLevels : \A k \in NonEmptyLevels : l <= k

\* C14: under MultilevelFeedback select_next returns the head of the
\* lowest-index non-empty queue; the process returned from level l goes to the
\* tail of level l+1 exactly when it has been scheduled more than (l+1)*3
\* times and to the tail of level l otherwise, so that a process that entered
\* at level 0 is at level 1 at its 5th scheduling; queue_level never exceeds
\* L-1, and from L-1 the process goes back to L-1
C14_FeedbackLevels ==
    [][(IsTick /\ current_algorithm_ = "MULTILEVEL_FEEDBACK" /\ NoRealtime)
          => /\ picked' = NoPid <=> NonEmptyLevels = {}
             /\ picked' # NoPid =>
                  LET l == LowestLevel
                      p == picked'
                      count == SchedSeen.heap[p].schedule_count
                      more == count > (l + 1) * 3
                      to == IF more /\ l < max_queue_levels_ - 1 THEN l + 1 ELSE l
                  IN  /\ p = Head(QueuesSeen[l])
                      /\ SchedSeen.heap[p].queue_level = l
                      /\ heap'[p].queue_level = to
                      /\ multilevel_queues_'[to] # <<>>
                      /\ multilevel_queues_'[to][Len(multilevel_queues_'[to])] = p
                      /\ (l = 0 /\ count = 4) => to = 1
                      /\ (l = 0 /\ count < 4) => to = 0
             /\ \A q \in DOMAIN heap' : heap'[q].queue_level <= max_queue_levels_ - 1]_vars

\* a process alone in the table has been scheduled 15 times and is in the last queue
C14_LoneProcessAtLastLevel ==
    /\ current_algorithm_ = "MULTILEVEL_FEEDBACK"
    /\ scheduled_processes_ = {2}
    /\ picked = 2
    /\ heap[2].schedule_count = 15
    /\ heap[2].queue_level = max_queue_levels_ - 1
    /\ multilevel_queues_[max_queue_levels_ - 1] = <<2>>

\* C15: under Fair scheduling with a process of nice -10 and one of nice 10,
\* the process of lower nice is never selected less often than the other (one
\* selection of difference is let pass, for the iteration in which the two
\* are level), and it is selected about twice as often: never more than four
\* times as often
C15_FairShare ==
    current_algorithm_ = "COMPLETELY_FAIR"
       => \A a, b \in scheduled_processes_ :
             heap[a].nice_value < heap[b].nice_value
                => /\ heap[a].schedule_count + 1 >= heap[b].schedule_count
                   /\ heap[a].schedule_count <= 4 * (heap[b].schedule_count + 1)

\* C16: under PriorityBased with boosting on and processes of nice 0, 0 and
\* 19, a live process that has gone 2 * starvation_threshold without being
\* picked is selected (schedule_count > 0) within two further iterations
C16_StarvingIsSelected ==
    \A p \in scheduled_processes_ :
       (isProcessRunning(snapshot, p) /\ heap[p].schedule_count = 0)
          => heap[p].waited <= 2 * StarvationTicks + 2

\* the registered real-time processes that are live and scheduled, in
\* registration-priority order
RealtimeReady == SelectSeq(realtime_processes_, LAMBDA p : p \in LiveScheduled)

Rank(level) ==
    CASE level = "LOW" -> 0
      [] level = "MEDIUM" -> 1
      [] level = "HIGH" -> 2
      [] level = "CRITICAL" -> 3

\* used_pct >= x for the memory last read, with twice x given
PctAtLeast(twice) == UsageAtLeast(system_memory_info_, twice)

\* C18: pressure() is Critical when used_pct >= critical, else High when
\* used_pct >= (low + critical) / 2, else Medium when used_pct >= low, else
\* Low; and it does not fall when used_pct grows
C18_PressureLevels ==
    memLast.pressure # "NONE" =>
       LET low == low_memory_threshold_
           critical == critical_memory_threshold_
           total == system_memory_info_.total_memory_kb
       IN  /\ memLast.pressure = "CRITICAL" <=> PctAtLeast(2 * critical)
           /\ memLast.pressure = "HIGH"
                 <=> ~PctAtLeast(2 * critical) /\ PctAtLeast(low + critical)
           /\ memLast.pressure = "MEDIUM"
                 <=> /\ ~PctAtLeast(2 * critical)
                     /\ ~PctAtLeast(low + critical)
                     /\ PctAtLeast(2 * low)
           /\ memLast.pressure = "LOW"
                 <=> /\ ~PctAtLeast(2 * critical)
                     /\ ~PctAtLeast(low + critical)
                     /\ ~PctAtLeast(2 * low)
           /\ \A used \in 0..system_memory_info_.used_memory_kb :
                 Rank(calculateMemoryPressure(MemoryInfo(total, total - used),
                                              low, critical))
                    <= Rank(memLast.pressure)

\* with thresholds 70 and 85, 77 % used is Medium: the middle is 77.5
C18_BelowTheMiddle ==
    /\ low_memory_threshold_ = 70
    /\ critical_memory_threshold_ = 85
    /\ system_memory_info_ = MemoryInfo(200, 46)
    /\ memLast.pressure = "MEDIUM"

\* C19: a cycle that sees Critical pressure with auto-optimize on drops all
\* caches and compacts memory whether or not available_kb is below
\* minimum_free_memory_kb; it tries to terminate only when available_kb is
\* below it; and no handler runs when the pressure is Low or auto-optimize is
\* off
C19_CriticalCycle ==
    [][memLast' # memLast =>
         LET short == system_memory_info_'.available_memory_kb < minimum_free_memory_kb_
         IN  /\ (memLast'.pressure = "CRITICAL" /\ auto_optimization_enabled_)
                   => /\ memLast'.all_caches_calls > 0
                      /\ memLast'.compact_calls > 0
                      /\ ~short => memLast'.candidates = <<>>
             /\ (memLast'.pressure = "LOW" \/ ~auto_optimization_enabled_)
                   => memLast'.handler = "none"]_vars

RECURSIVE SumRss(_)
SumRss(pids) == IF pids = <<>> THEN 0 ELSE Rss(Head(pids)) + SumRss(Tail(pids))

\* the terminations of the last cycle are in descending RSS order, stop as
\* soon as the RSS terminated covers the deficit, and spare critical processes
OrderedUntilCovered ==
    LET killed == memLast.killed
    IN  /\ \A i, j \in DOMAIN killed : i < j => Rss(killed[i]) >= Rss(killed[j])
        /\ killed # <<>> => SumRss(SubSeq(killed, 1, Len(killed) - 1)) < memLast.needed
        /\ \A i \in DOMAIN killed : ~IsCriticalPid(killed[i])

\* C20: in one cycle under Critical pressure with available_kb below
\* minimum_free_memory_kb at most 5 processes are terminated, in descending
\* RSS order, the terminations stop as soon as the RSS of the terminated
\* processes covers the deficit, and no critical process is terminated
C20_AtMostFiveTerminated ==
    /\ Len(memLast.killed) <= 5
    /\ OrderedUntilCovered

\* the host calls of the last MemoryManager operation
MemCalls == {memLast.calls[i] : i \in DOMAIN memLast.calls}

\* C21: a terminate request is made only by the Critical-pressure handler; the
\* Medium and High handlers, optimizeProcessMemory and optimizeSystemMemory
\* under every strategy send no signal to a process (no SIGTERM, no SIGSTOP)
\* and at most set its nice to the largest value
C21_KillOnlyWhenCritical ==
    /\ (\E c \in MemCalls : c.kind = "kill") => memLast.handler = "critical"
    /\ memLast.handler \in {"medium", "high", "optimize_process"} \cup MemoryStrategies
          => /\ memLast.killed = <<>>
             /\ \A c \in MemCalls : c.kind = "setpriority" /\ c.nice = NiceMax

\* optimizeSystemMemory under the Aggressive strategy has set the nice of the
\* three memory hogs it may modify
C21_AggressiveLowersThree == memLast.handler = "AGGRESSIVE" /\ Len(memLast.calls) = 3

(***************************************************************************)
(* Claims about the SystemMonitor, checked under SpecCpu and SpecMon.      *)
(***************************************************************************)
Max2(a, b) == IF a > b THEN a ELSE b

\* C22: the first ProcessInfo of a pid has cpu_usage 0, and every later one
\* has cpu_usage = 100 * (the clock ticks the pid used since the previous
\* poll) / max(the growth of the global total since the previous poll, 1),
\* which lies between 0 and 100 * cores
C22_CpuPct ==
    [][processes_' # processes_ =>
         \A p \in DOMAIN processes_' :
            LET usage == processes_'[p].cpu_usage
            IN  IF p \notin DOMAIN processes_ THEN usage = 0
                ELSE /\ usage * Max2(new_stats.total - system_stats_.total, 1)
                           = 100 * (processes_'[p].cpu_time - processes_[p].cpu_time)
                     /\ usage >= 0]_vars

\* the polls the callbacks of one kind were invoked with, in order
RECURSIVE PollsOf(_, _)
PollsOf(log, kind) ==
    IF log = <<>> THEN <<>>
    ELSE IF Head(log).kind = kind THEN <<Head(log).poll>> \o PollsOf(Tail(log), kind)
    ELSE PollsOf(Tail(log), kind)

\* the polls for which the thread is past notifyProcessUpdate, and past
\* notifySystemStatsUpdate
ProcessNotified == IF monPc \in {"lock", "store", "notify_process"} THEN polls - 1 ELSE polls
StatsNotified ==
    IF monPc \in {"lock", "store", "notify_process", "notify_stats"} THEN polls - 1 ELSE polls

\* a getter returned the data of the last completed poll
GetterSawCompleted == got.kind # "none" => got.poll = got.completed

\* every system notification directly follows the process notification of
\* the same poll
SamePoll ==
    \A i \in DOMAIN delivered :
       delivered[i].kind = "stats"
          => /\ i > 1
             /\ delivered[i - 1].kind = "process"
             /\ delivered[i - 1].poll = delivered[i].poll

C24_NoCallbackAfterStop == \A i \in DOMAIN delivered : delivered[i].active

(***************************************************************************)
(* Claims about the ModeManager's detection and quick actions.             *)
(***************************************************************************)
\* a process of the reading matches a gaming token and uses more than 30 %
\* of the CPU or has more than 1 GB resident
GamingExpected(r) ==
    \E i \in r.running :
       /\ GameIndicatorsIn(DetectName(i)) # {}
       /\ (DetectCpu(i) > 30 \/ DetectRssMB(i) > 1024)

\* C25: detectOptimalMode returns PowerSaving if (on battery and battery below
\* the threshold) or the temperature is above the threshold; otherwise Gaming
\* if a running process matches a gaming token and has CPU > 30 % or RSS >
\* 1 GB; otherwise Productivity if at least two running processes match a
\* productivity token; otherwise Balanced
C25_DetectOptimalMode ==
    detected # "NONE" =>
       detected =
          IF (reading.discharging /\ reading.capacity < 20) \/ reading.temp > 80000
          THEN "POWER_SAVING"
          ELSE IF GamingExpected(reading) THEN "GAMING"
          ELSE IF Cardinality({i \in reading.running :
                                  ProductivityIndicatorsIn(DetectName(i)) # {}}) >= 2
          THEN "PRODUCTIVITY"
          ELSE "BALANCED"

C27_LeftAsFound ==
    destroyed =>
       /\ current_algorithm_ = "PRIORITY_BASED"
       /\ governor = "ondemand"
       /\ \A p \in DOMAIN managed_processes_ \cap alive :
             hostNice[p] = 0 /\ p \notin hostStopped


\* C28: starting the Scheduler and then stopping it always terminates: once
\* stopScheduler has cleared scheduler_active_ and waits in join, the thread
\* sees the flag at its next cycle boundary and exits, and the join returns.
C28_StopReturns == (stopPc = "join") ~> (stopPc = "idle")

\* the other parts of C28: a second startScheduler creates no second thread,
\* and no iteration runs once stopScheduler has returned
OneSchedulerThread == threads <= 1
NoCycleAfterStop == [][(~scheduler_active_ /\ stopPc = "idle") => ticks' = ticks]_vars
StopReturnsUnlessStuck == (<>pmStuck) \/ ((stopPc = "join") ~> (stopPc = "idle"))
StoppedAfterCycles == ticks > 0 /\ ~scheduler_active_ /\ stopPc = "idle" /\ started = "true"

\* C29: every read and write of the scheduled-process table and the queues
\* happens with scheduler_mutex_ held: the thread's reconcile and update steps
\* never run while another thread is inside setSchedulingAlgorithm.
C29_TableUnderMutex ==
    ~(scheduler_thread_ \in {"reconcile", "update"} /\ callerPc = "set")

\* C30: no component invokes a subscriber callback while it holds its own
\* lock, so a callback that calls back into the component cannot deadlock.
C30_CallbackOutsideLock ==
    /\ invoking.callback # "none" => MutexOf(invoking.callback) \notin invoking.held
    /\ ~invoking.blocked

\* C31: the first successful pause, set_nice or terminate of a pid that has
\* no ManagedProcess entry creates one, so that every live pid the
\* ProcessManager has modified is in the managed table
C31_InterventionCreatesEntry ==
    [][(last'.op \in {"pause", "set_nice", "terminate"} /\ last'.ret = "true"
           /\ last'.pid \in alive')
          => last'.pid \in DOMAIN managed_processes_']_vars

\* C32: every scheduled process's time_slice lies in [min_time_slice_,
\* max_time_slice_], and an adaptive step changes a time_slice only to 0.8
\* times its value, not below min_time_slice_, and never that of a real-time
\* process
C32_TimeSliceInRange ==
    /\ [](\A p \in DOMAIN time_slice :
             min_time_slice_ <= time_slice[p] /\ time_slice[p] <= max_time_slice_)
    /\ [][\A p \in DOMAIN time_slice \cap DOMAIN time_slice' :
             time_slice'[p] # time_slice[p]
                => /\ heap[p].process_class # "REAL_TIME"
                   /\ time_slice'[p] * 100 <= time_slice[p] * 80
                        \/ time_slice'[p] = min_time_slice_
                   /\ time_slice'[p] * 100 > time_slice[p] * 80 - 100
                   /\ min_time_slice_ <= time_slice'[p]]_vars

\* an adaptive step has brought a time_slice down to min_time_slice_
C32_ScaledToMinimum ==
    \E p \in DOMAIN time_slice : time_slice[p] = min_time_slice_ /\ p \in scheduled_processes_

\* C33: on first admission a process's class is the one inferred from its
\* name alone and its time slice is the one of that class; the adjustment by
\* CPU usage is not applied at admission
C33_ClassFromNameAtAdmission ==
    [][\A p \in scheduled_processes_' \ scheduled_processes_ :
         /\ heap'[p].process_class = classifyProcessByName(ProcName(p))
         /\ time_slice'[p] = calculateTimeSlice(classifyProcessByName(ProcName(p)))]_vars

\* C34: resumeProcess, pauseProcessesByCategory, resumeProcessesByCategory and
\* removeFromManaged never block for ever on processes_mutex_, which their own
\* thread holds: called while no thread is stuck, they leave none stuck
C34_NoSelfDeadlock ==
    [][(~pmStuck /\ last'.op \in {"resume", "pause_category", "resume_category", "remove"})
          => ~pmStuck']_vars

\* a sequence of pids holds no pid twice
NoDuplicates(q) == \A i, j \in DOMAIN q : q[i] = q[j] => i = j

\* C35: the RoundRobin deque and the multilevel queues hold only processes of
\* the scheduled table, each pid at most once in the structure of the active
\* algorithm, and under MultilevelFeedback a process's queue_level is the index
\* of the queue that holds it
C35_QueuesWellFormed ==
    /\ Queued(round_robin_queue_, multilevel_queues_) \subseteq scheduled_processes_
    /\ current_algorithm_ = "ROUND_ROBIN" => NoDuplicates(round_robin_queue_)
    /\ current_algorithm_ = "MULTILEVEL_FEEDBACK" =>
          /\ \A l \in Levels : NoDuplicates(multilevel_queues_[l])
          /\ \A l, k \in Levels :
                l # k => Range(multilevel_queues_[l]) \cap Range(multilevel_queues_[k]) = {}
          /\ \A l \in Levels : \A p \in Range(multilevel_queues_[l]) : heap[p].queue_level = l

\* C36: a ManagedProcess's recorded state and priority match what was applied
\* to the host: a pause, terminate or set_nice whose host call fails leaves
\* the entry unchanged, and after a set_nice that succeeds the recorded
\* priority is the clamped nice value given to the host
C36_RecordMatchesHost ==
    [][(/\ ~pmStuck
        /\ last'.op \in {"pause", "terminate", "set_nice"}
        /\ last'.pid \in DOMAIN managed_processes_ \cap DOMAIN managed_processes_')
          => /\ last'.ret = "false"
                  => managed_processes_'[last'.pid] = managed_processes_[last'.pid]
             /\ (last'.op = "set_nice" /\ last'.ret = "true")
                  => /\ managed_processes_'[last'.pid].current_priority \in NiceMin..NiceMax
                     /\ \E c \in Range(last'.calls) :
                           c.nice = managed_processes_'[last'.pid].current_priority]_vars


\* C37: the backup holds exactly the nice values and the suspended set of the
\* processes managed at the start of the current switch, and a switch that
\* committed has consumed it: nothing is left for a later failure or for the
\* destructor to replay
C37_BackupOfThisSwitch ==
    /\ [](\A t \in Callers :
            (pc[t] = "done" /\ ret[t] = "true") => ~state_backup_.is_valid)
    /\ [][\A t \in Callers :
            (pc[t] = "backup" /\ pc'[t] = "apply")
               => /\ DOMAIN state_backup_'.process_priorities = DOMAIN managed_processes_
                  /\ state_backup_'.suspended_processes =
                        {p \in DOMAIN managed_processes_ :
                            managed_processes_[p].current_state = "SUSPENDED"}]_vars


\* C38: once the ModeManager's destructor has begun, no switch starts and
\* nothing more is applied to the Scheduler, the MemoryManager or the
\* ProcessManager on its behalf, the return switch of quickBoostPerformance
\* included
C38_NothingAfterShutdown ==
    [][destroyed => /\ switches' = switches
                    /\ pc' = pc
                    /\ current_algorithm_' = current_algorithm_
                    /\ optimization_strategy_' = optimization_strategy_
                    /\ managed_processes_' = managed_processes_
                    /\ hostNice' = hostNice]_vars


\* C39: with two live processes, none real-time, and the Scheduler's thread
\* going on for ever, each process is selected again and again under each
\* algorithm, whatever the nice values
C39_EverySelectedForever ==
    /\ []<>(picked = 2)
    /\ []<>(picked = 3)


\* C40: the thread-pool Scheduler runs every cycle it enqueues, those
\* enqueued after a stopScheduling() and a new startScheduling() included: each
\* task put on the pool's queue is in the end run by a worker of the pool
C40_EnqueuedIsRun ==
    \A i \in 1..MaxCycles :
        (i \in Range(poolSched.tasks)) ~> (i \in Range(poolSched.ran))

====
